---- MODULE Spec2Model ----
(***************************************************************************)
(* codex-chat-bridge (src/src/main.rs): a proxy between the Responses API  *)
(* and the Chat Completions API.                                           *)
(*                                                                         *)
(* Text is a sequence of one-character strings.  An Option<T> is the empty *)
(* sequence (None) or a one-element sequence (Some(v)).                    *)
(***************************************************************************)
EXTENDS Integers, Sequences, FiniteSets, TLC

VARIABLES
    cfg,        \* AppState: upstream_wire, http_shutdown, drop_tool_types, api_key,
                \* verbose_logging
    req,        \* per request: position in handle_incoming and its response
    st,         \* per request: the state of the response stream generator
    uuid,       \* number of Uuid::now_v7() values drawn so far
    exitTimer,  \* the task spawned by shutdown(): "none", "scheduled", "exited"
    shutdownLog,\* statuses returned by GET /shutdown so far
    par,        \* an SseParser fed the chunks of a text, beside a single feed
    pay,        \* one request taken through handle_incoming up to the upstream payload
    una,        \* one Chat completion document taken through chat_json_to_responses_json
    conf        \* the command line and the config file taken through resolve_config

vars == <<cfg, req, st, uuid, exitTimer, shutdownLog, par, pay, una, conf>>

\* ---------------------------------------------------------------- bounds
MaxChunks == 3        \* upstream chunks read by one stream (stream model)
MaxChunksD == 1       \* upstream chunks read by one stream (dispatcher model)
MaxLines == 3         \* lines of a text given to the parser model
MaxEmpty == 1         \* empty chunks fed to the parser model
MaxShutdowns == 1     \* calls to GET /shutdown
MaxTools == 2         \* elements of the `tools` array of a request (payload model)
MaxHeaders == 2       \* headers of a caller's request (payload model)
MaxDrops == 2         \* entries of a drop_tool_types list of the command line or the file
MaxFeedLines == 3     \* lines of a text fed line by line
MaxChoices == 2       \* choices of a Chat completion document
MaxItems == 2         \* items of `input` or `messages` of a request (payload model)

\* the two requests the dispatcher model handles concurrently
Reqs == {1, 2}

\* ------------------------------------------------------------ text helpers
None == <<>>
Some(v) == <<v>>
IsSome(o) == Len(o) > 0
Unwrap(o) == o[1]

NL == "\n"
CR == "\r"
SP == " "

RECURSIVE Concat(_)
Concat(seqs) == IF seqs = <<>> THEN <<>> ELSE Head(seqs) \o Concat(Tail(seqs))

\* Vec<String>::join("\n")
RECURSIVE JoinNL(_)
JoinNL(lines) ==
    IF Len(lines) = 0 THEN <<>>
    ELSE IF Len(lines) = 1 THEN lines[1]
    ELSE lines[1] \o <<NL>> \o JoinNL(Tail(lines))

HasPrefix(s, p) == Len(s) >= Len(p) /\ SubSeq(s, 1, Len(p)) = p

\* str::strip_prefix(p).unwrap_or(s)
StripPrefixOr(s, p) == IF HasPrefix(s, p) THEN SubSeq(s, Len(p) + 1, Len(s)) ELSE s

\* String::find('\n'): position of the first newline, 0 when there is none
FindNewline(s) ==
    IF \E i \in 1..Len(s) : s[i] = NL
    THEN CHOOSE i \in 1..Len(s) : s[i] = NL /\ \A j \in 1..(i - 1) : s[j] # NL
    ELSE 0

DATA_PREFIX == <<"d", "a", "t", "a", ":">>
DONE == <<"[", "D", "O", "N", "E", "]">>

\* ---------------------------------------------------------------- SseParser
SseParserDefault == [buffer |-> <<>>, current_data_lines |-> <<>>]

\* if line.ends_with('\r') { line.pop(); }
StripCR(line) ==
    IF Len(line) > 0 /\ line[Len(line)] = CR THEN SubSeq(line, 1, Len(line) - 1) ELSE line

\* `rest.strip_prefix(' ').unwrap_or(rest)` of a line that starts with `data:`
DataLineTextTrimsSpaces(line) ==
    StripPrefixOr(StripPrefixOr(StripPrefixOr(line, DATA_PREFIX), <<SP>>), <<SP>>)
DataLineText(line) == StripPrefixOr(StripPrefixOr(line, DATA_PREFIX), <<SP>>)

\* the while loop of SseParser::feed over the buffer
RECURSIVE FeedLoop(_, _, _)
FeedLoop(buffer, lines, events) ==
    LET pos == FindNewline(buffer) IN
    IF pos = 0
    THEN [buffer |-> buffer, current_data_lines |-> lines, events |-> events]
    ELSE LET line == StripCR(SubSeq(buffer, 1, pos - 1))
             rest == SubSeq(buffer, pos + 1, Len(buffer))
         IN  IF line = <<>>
             THEN IF lines # <<>>
                  THEN FeedLoop(rest, <<>>, Append(events, JoinNL(lines)))
                  ELSE FeedLoop(rest, lines, events)
             ELSE IF HasPrefix(line, DATA_PREFIX)
                  THEN FeedLoop(rest, Append(lines, DataLineText(line)), events)
                  ELSE FeedLoop(rest, lines, events)

\* a feed that forgets the unterminated tail of the chunk
SseFeedDropsPartialLine(parser, chunk) ==
    LET r == FeedLoop(parser.buffer \o chunk, parser.current_data_lines, <<>>)
    IN  [r EXCEPT !.buffer = <<>>]

\* SseParser::feed: the parser after the call, with the returned events
SseFeed(parser, chunk) ==
    FeedLoop(parser.buffer \o chunk, parser.current_data_lines, <<>>)

ParserOf(r) == [buffer |-> r.buffer, current_data_lines |-> r.current_data_lines]

\* SseParser::finish
SseFinish(parser) ==
    IF parser.current_data_lines = <<>> THEN None
    ELSE Some(JoinNL(parser.current_data_lines))


\* String::from_utf8_lossy at the call boundary: the two bytes C3 A9 decode to
\* one character, a lone lead or continuation byte decodes to U+FFFD ("?"),
\* every other byte is an ASCII character and decodes to itself.
RECURSIVE FromUtf8Lossy(_)
FromUtf8Lossy(bytes) ==
    IF bytes = <<>> THEN <<>>
    ELSE IF Len(bytes) >= 2 /\ bytes[1] = "C3" /\ bytes[2] = "A9"
         THEN <<"é">> \o FromUtf8Lossy(SubSeq(bytes, 3, Len(bytes)))
    ELSE IF bytes[1] \in {"C3", "A9"}
         THEN <<"?">> \o FromUtf8Lossy(Tail(bytes))
    ELSE <<bytes[1]>> \o FromUtf8Lossy(Tail(bytes))

\* ------------------------------------------------- upstream Chat chunk documents
\* A JSON document of the upstream is written on the wire as one character; the
\* table gives the ChatChunk that serde_json::from_str decodes it to.
ToolCallDelta(index, id, function) == [index |-> index, id |-> id, function |-> function]
FunctionDelta(name, arguments) == [name |-> name, arguments |-> arguments]
ChatDelta(content, tool_calls) == [content |-> content, tool_calls |-> tool_calls]
ChatChoice(delta) == [delta |-> delta]
ChatUsage(p, c, t) == [prompt_tokens |-> p, completion_tokens |-> c, total_tokens |-> t]
ChatChunk(choices, usage) == [choices |-> choices, usage |-> usage]

TextChunk(t) == ChatChunk(<<ChatChoice(Some(ChatDelta(Some(t), None)))>>, None)
ToolChunk(tc) == ChatChunk(<<ChatChoice(Some(ChatDelta(None, Some(<<tc>>))))>>, None)

DocTokens == {"A", "B", "E", "M", "U", "P", "Q", "R", "S", "T", "Z"}

ChatChunkOf(c) ==
    CASE c = "A" -> TextChunk(<<"H">>)
      [] c = "B" -> TextChunk(<<"i">>)
      [] c = "E" -> TextChunk(<<>>)
      [] c = "M" -> ChatChunk(<<ChatChoice(Some(ChatDelta(Some(<<"x">>), None))),
                                ChatChoice(Some(ChatDelta(Some(<<"y">>), None)))>>, None)
      [] c = "U" -> ChatChunk(<<>>, Some(ChatUsage(1, 2, 3)))
      [] c = "P" -> ToolChunk(ToolCallDelta(Some(1), Some("c1"),
                                            Some(FunctionDelta(Some("f"), Some(<<"{">>)))))
      [] c = "Q" -> ToolChunk(ToolCallDelta(Some(1), None,
                                            Some(FunctionDelta(None, Some(<<"}">>)))))
      [] c = "R" -> ToolChunk(ToolCallDelta(None, None,
                                            Some(FunctionDelta(Some("g"), None))))
      [] c = "S" -> ToolChunk(ToolCallDelta(Some(0), Some("c0"), None))
      [] c = "T" -> ChatChunk(<<ChatChoice(Some(ChatDelta(Some(<<"t">>),
                                    Some(<<ToolCallDelta(None, None,
                                             Some(FunctionDelta(None, Some(<<"1">>))))>>))))>>,
                              Some(ChatUsage(4, 5, 9)))
      [] c = "Z" -> ChatChunk(<<ChatChoice(None)>>, None)

\* characters outside ASCII: U+00E9, and U+FFFD (written "?")
NonAscii == {"é", "?"}

\* serde_json::from_str::<ChatChunk>(&data): Some(chunk), or None on a decode error.
\* A document whose only member is a delta content of characters outside ASCII is
\* written on the wire as that content.
DecodeChatChunk(data) ==
    IF Len(data) = 1 /\ data[1] \in DocTokens THEN Some(ChatChunkOf(data[1]))
    ELSE IF data # <<>> /\ \A i \in 1..Len(data) : data[i] \in NonAscii
         THEN Some(TextChunk(data))
    ELSE None

\* ------------------------------------------------------------------ events
NoCallId == [id |-> "", uuid |-> 0, index |-> 0]

\* An error message: the fixed text of its format string, and the upstream status
\* and body that `upstream returned {status}: {body}` interpolates.
Message(text, status, body) == [text |-> text, status |-> status, body |-> body]
NoMessage == Message("", 0, <<>>)
\* err.to_string() of a failed read
ReadErrorMessage == Message("error reading a body from connection", 0, <<>>)

Event(type) ==
    [type |-> type, rid |-> 0, item |-> "none", text |-> <<>>, name |-> "",
     arguments |-> <<>>, call_id |-> NoCallId, code |-> "", message |-> NoMessage,
     usage |-> None, raw |-> FALSE]

CreatedEvent(rid) == [Event("response.created") EXCEPT !.rid = rid]
FailedEvent(rid, code, message) ==
    [Event("response.failed") EXCEPT !.rid = rid, !.code = code, !.message = message]
AddedEvent == [Event("response.output_item.added") EXCEPT !.item = "message"]
DeltaEvent(content) == [Event("response.output_text.delta") EXCEPT !.text = content]
MessageDoneEvent(text) ==
    [Event("response.output_item.done") EXCEPT !.item = "message", !.text = text]
FunctionCallDoneEvent(name, arguments, call_id) ==
    [Event("response.output_item.done") EXCEPT
        !.item = "function_call", !.name = name, !.arguments = arguments, !.call_id = call_id]
ResponsesUsage(u) ==
    [input_tokens |-> u.prompt_tokens, output_tokens |-> u.completion_tokens,
     total_tokens |-> u.total_tokens]
CompletedEvent(rid, usage) ==
    [Event("response.completed") EXCEPT
        !.rid = rid,
        !.usage = IF IsSome(usage) THEN Some(ResponsesUsage(Unwrap(usage))) ELSE None]
\* a chunk of the upstream Responses stream, forwarded as it is
RawChunk(c) == [Event(c) EXCEPT !.raw = TRUE]

\* --------------------------------------------------------- StreamAccumulator
ToolCallAccumulatorDefault == [id |-> None, name |-> None, arguments |-> <<>>]
StreamAccumulatorDefault ==
    [assistant_text |-> <<>>, tool_calls |-> <<>>, usage |-> None]

NoStream ==
    [kind |-> "none", pc |-> "idle", rid |-> 0, parser |-> SseParserDefault,
     acc |-> StreamAccumulatorDefault, assistant_item_added |-> FALSE,
     out |-> <<>>, nread |-> 0, ended |-> "", skipped |-> 0, input |-> <<>>,
     bytes |-> <<>>, chunks |-> <<>>]

\* index = tool_call.index.unwrap_or(acc.tool_calls.len())
ToolCallIndex(tool_calls, tc) ==
    IF IsSome(tc.index) THEN Unwrap(tc.index) ELSE Cardinality(DOMAIN tool_calls)

\* the body of `for tool_call in tool_calls`: one fragment into the BTreeMap
AccumulateToolCall(tool_calls, tc) ==
    LET index == ToolCallIndex(tool_calls, tc)
        entry == IF index \in DOMAIN tool_calls THEN tool_calls[index]
                 ELSE ToolCallAccumulatorDefault
        e1 == IF IsSome(tc.id) THEN [entry EXCEPT !.id = tc.id] ELSE entry
        e2 == IF IsSome(tc.function) /\ IsSome(Unwrap(tc.function).name)
              THEN [e1 EXCEPT !.name = Unwrap(tc.function).name] ELSE e1
        e3 == IF IsSome(tc.function) /\ IsSome(Unwrap(tc.function).arguments)
              THEN [e2 EXCEPT !.arguments = @ \o Unwrap(Unwrap(tc.function).arguments)]
              ELSE e2
    IN  [i \in (DOMAIN tool_calls) \cup {index} |-> IF i = index THEN e3 ELSE tool_calls[i]]

RECURSIVE AccumulateToolCalls(_, _)
AccumulateToolCalls(tool_calls, tcs) ==
    IF tcs = <<>> THEN tool_calls
    ELSE AccumulateToolCalls(AccumulateToolCall(tool_calls, Head(tcs)), Tail(tcs))

\* a content step that appends the text only for the delta that announces the item
ApplyContentFirstOnly(s, content) ==
    IF content = <<>> THEN s
    ELSE IF ~s.assistant_item_added
         THEN [s EXCEPT !.assistant_item_added = TRUE,
                        !.acc.assistant_text = @ \o content,
                        !.out = @ \o <<AddedEvent, DeltaEvent(content)>>]
         ELSE [s EXCEPT !.out = Append(@, DeltaEvent(content))]

\* a content step that announces the item before every delta
ApplyContentAlwaysAdds(s, content) ==
    IF content = <<>> THEN s
    ELSE [s EXCEPT !.assistant_item_added = TRUE,
                   !.acc.assistant_text = @ \o content,
                   !.out = @ \o <<AddedEvent, DeltaEvent(content)>>]

\* `if let Some(content) = delta.content && !content.is_empty()`
ApplyContent(s, content) ==
    IF content = <<>> THEN s
    ELSE LET a == IF s.assistant_item_added THEN s
                  ELSE [s EXCEPT !.assistant_item_added = TRUE,
                                 !.out = Append(@, AddedEvent)]
         IN  [a EXCEPT !.acc.assistant_text = @ \o content,
                       !.out = Append(@, DeltaEvent(content))]

\* `if let Some(delta) = choice.delta`
ApplyDelta(s, delta) ==
    LET a == IF IsSome(delta.content) THEN ApplyContent(s, Unwrap(delta.content)) ELSE s
    IN  IF IsSome(delta.tool_calls)
        THEN [a EXCEPT !.acc.tool_calls = AccumulateToolCalls(@, Unwrap(delta.tool_calls))]
        ELSE a

RECURSIVE ApplyChoices(_, _)
ApplyChoices(s, choices) ==
    IF choices = <<>> THEN s
    ELSE ApplyChoices(IF IsSome(Head(choices).delta)
                      THEN ApplyDelta(s, Unwrap(Head(choices).delta)) ELSE s,
                      Tail(choices))

\* `if let Some(usage) = chat_chunk.usage.clone() { acc.usage = Some(usage); }`
ApplyUsageResets(s, chunk) == [s EXCEPT !.acc.usage = chunk.usage]
ApplyUsage(s, chunk) ==
    IF IsSome(chunk.usage) THEN [s EXCEPT !.acc.usage = chunk.usage] ELSE s

\* a payload step for which an undecodable payload resets the accumulator
ApplyPayloadResetsOnError(s, data) ==
    IF data = DONE THEN [s EXCEPT !.skipped = @ + 1]
    ELSE LET d == DecodeChatChunk(data) IN
         IF ~IsSome(d) THEN [s EXCEPT !.skipped = @ + 1, !.acc = StreamAccumulatorDefault]
         ELSE LET chunk == Unwrap(d)
                  a == ApplyUsage(s, chunk)
              IN  ApplyChoices(a, chunk.choices)

\* the body of `for data in events`: one SSE payload
ApplyPayload(s, data) ==
    IF data = DONE THEN [s EXCEPT !.skipped = @ + 1]
    ELSE LET d == DecodeChatChunk(data) IN
         IF ~IsSome(d) THEN [s EXCEPT !.skipped = @ + 1]
         ELSE LET chunk == Unwrap(d)
                  a == ApplyUsage(s, chunk)
              IN  ApplyChoices(a, chunk.choices)

RECURSIVE ApplyPayloads(_, _)
ApplyPayloads(s, events) ==
    IF events = <<>> THEN s
    ELSE ApplyPayloads(ApplyPayload(s, Head(events)), Tail(events))

\* one iteration of the `while let Some(chunk_result)` loop for Ok(chunk)
TranslateChunk(s, chunk) ==
    LET r == SseFeed(s.parser, FromUtf8Lossy(chunk))
    IN  ApplyPayloads([s EXCEPT !.parser = ParserOf(r), !.nread = @ + 1,
                                !.input = @ \o FromUtf8Lossy(chunk),
                                !.bytes = @ \o chunk,
                                !.chunks = Append(@, chunk)], r.events)


\* the keys of a BTreeMap in iteration order (ascending)
RECURSIVE SortedKeys(_)
SortedKeys(S) ==
    IF S = {} THEN <<>>
    ELSE LET m == CHOOSE x \in S : \A y \in S : x <= y
         IN  <<m>> \o SortedKeys(S \ {m})

\* keys in descending order
RECURSIVE SortedKeysDescending(_)
SortedKeysDescending(S) ==
    IF S = {} THEN <<>>
    ELSE LET m == CHOOSE x \in S : \A y \in S : x >= y
         IN  <<m>> \o SortedKeysDescending(S \ {m})

\* `for (index, tool_call) in acc.tool_calls`: the function_call items, and the
\* number of uuids drawn after them (one per entry without an id)
RECURSIVE FunctionCallItems(_, _, _)
FunctionCallItems(tool_calls, keys, u) ==
    IF keys = <<>> THEN [events |-> <<>>, uuid |-> u]
    ELSE LET index == Head(keys)
             tc == tool_calls[index]
             u1 == IF IsSome(tc.id) THEN u ELSE u + 1
             call_id == IF IsSome(tc.id) THEN [id |-> Unwrap(tc.id), uuid |-> 0, index |-> 0]
                        ELSE [id |-> "", uuid |-> u1, index |-> index]
             name == IF IsSome(tc.name) THEN Unwrap(tc.name) ELSE "unknown_function"
             rest == FunctionCallItems(tool_calls, Tail(keys), u1)
         IN  [events |-> <<FunctionCallDoneEvent(name, tc.arguments, call_id)>> \o rest.events,
              uuid |-> rest.uuid]

\* translate_chat_stream up to its first yield
TranslateStartFreshCreatedId(rid) ==
    [NoStream EXCEPT !.kind = "translate", !.pc = "loop", !.rid = rid,
                     !.out = <<CreatedEvent(rid + 1)>>]
TranslateStart(rid) ==
    [NoStream EXCEPT !.kind = "translate", !.pc = "loop", !.rid = rid,
                     !.out = <<CreatedEvent(rid)>>]

\* a read error that is followed by the trailing items and response.completed
TranslateReadErrorContinues(s) ==
    [s EXCEPT !.out = @ \o <<FailedEvent(s.rid, "upstream_stream_error", ReadErrorMessage),
                             CompletedEvent(s.rid, s.acc.usage)>>,
              !.pc = "done", !.ended = "error"]

\* Err(err) from upstream_stream.next(): response.failed, then return
TranslateReadError(s) ==
    [s EXCEPT !.out = Append(@, FailedEvent(s.rid, "upstream_stream_error", ReadErrorMessage)),
              !.pc = "done", !.ended = "error"]

\* an end of stream that emits the tool calls before the message item
TranslateEndToolsFirst(s, u) ==
    LET msg == IF s.acc.assistant_text # <<>>
               THEN <<MessageDoneEvent(s.acc.assistant_text)>> ELSE <<>>
        fc == FunctionCallItems(s.acc.tool_calls, SortedKeysDescending(DOMAIN s.acc.tool_calls), u)
    IN  [stream |-> [s EXCEPT !.out = @ \o fc.events \o msg
                                        \o <<CompletedEvent(s.rid, s.acc.usage)>>,
                              !.pc = "done", !.ended = "eof"],
         uuid |-> fc.uuid]

\* an end of stream that fails when the parser still holds a payload other than [DONE]
TranslateEndStrict(s, u) ==
    LET msg == IF s.acc.assistant_text # <<>>
               THEN <<MessageDoneEvent(s.acc.assistant_text)>> ELSE <<>>
        fc == FunctionCallItems(s.acc.tool_calls, SortedKeys(DOMAIN s.acc.tool_calls), u)
        trailing == SseFinish(s.parser)
    IN  IF IsSome(trailing) /\ Unwrap(trailing) # DONE
        THEN [stream |-> [s EXCEPT !.out = Append(@, FailedEvent(s.rid, "upstream_stream_error", ReadErrorMessage)),
                                   !.pc = "done", !.ended = "eof"],
              uuid |-> u]
        ELSE [stream |-> [s EXCEPT !.out = @ \o msg \o fc.events
                                             \o <<CompletedEvent(s.rid, s.acc.usage)>>,
                                   !.pc = "done", !.ended = "eof"],
              uuid |-> fc.uuid]

\* an end of stream that omits response.completed
TranslateEndNoCompleted(s, u) ==
    LET msg == IF s.acc.assistant_text # <<>>
               THEN <<MessageDoneEvent(s.acc.assistant_text)>> ELSE <<>>
        fc == FunctionCallItems(s.acc.tool_calls, SortedKeys(DOMAIN s.acc.tool_calls), u)
    IN  [stream |-> [s EXCEPT !.out = @ \o msg \o fc.events,
                              !.pc = "done", !.ended = "eof"],
         uuid |-> fc.uuid]

\* after the while loop: parser.finish(), the trailing items, response.completed
TranslateEnd(s, u) ==
    LET msg == IF s.acc.assistant_text # <<>>
               THEN <<MessageDoneEvent(s.acc.assistant_text)>> ELSE <<>>
        fc == FunctionCallItems(s.acc.tool_calls, SortedKeys(DOMAIN s.acc.tool_calls), u)
    IN  [stream |-> [s EXCEPT !.out = @ \o msg \o fc.events
                                        \o <<CompletedEvent(s.rid, s.acc.usage)>>,
                              !.pc = "done", !.ended = "eof"],
         uuid |-> fc.uuid]

\* passthrough_responses_stream
PassthroughStart == [NoStream EXCEPT !.kind = "passthrough", !.pc = "loop"]
PassthroughChunk(s, c) ==
    [s EXCEPT !.out = Append(@, RawChunk(c)), !.nread = @ + 1, !.chunks = Append(@, c)]
\* a read error answered with response.created before response.failed
PassthroughReadErrorWithCreated(s) ==
    [s EXCEPT !.out = @ \o <<CreatedEvent(0),
                             FailedEvent(0, "upstream_stream_error", ReadErrorMessage)>>,
              !.pc = "done", !.ended = "error"]

\* Err(err) from upstream_stream.next(): response.failed, then return
PassthroughReadError(s) ==
    [s EXCEPT !.out = Append(@, FailedEvent(0, "upstream_stream_error", ReadErrorMessage)),
              !.pc = "done", !.ended = "error"]
PassthroughEnd(s) == [s EXCEPT !.pc = "done", !.ended = "eof"]

\* an error response that omits response.created
SseErrorBodyNoCreated(rid, code, message) ==
    [NoStream EXCEPT !.kind = "sse_error", !.pc = "done", !.rid = rid,
                     !.out = <<FailedEvent(rid, code, message)>>]

\* sse_error_response: the body, for the response id it draws
SseErrorBody(rid, code, message) ==
    [NoStream EXCEPT !.kind = "sse_error", !.pc = "done", !.rid = rid,
                     !.out = <<CreatedEvent(rid), FailedEvent(rid, code, message)>>]


\* ------------------------------------------------------- unary JSON documents
\* A Chat completion document: the choices' messages and the usage.
ChatJson(choices, usage) ==
    [schema |-> "chat", id |-> 0, status |-> "", choices |-> choices,
     output |-> <<>>, usage |-> usage]
ChatMessage(content, tool_calls) == [content |-> content, tool_calls |-> tool_calls]
ChatToolCall(id, name, arguments) == [id |-> id, name |-> name, arguments |-> arguments]
\* A Responses document.
ResponsesJson(id, output, usage) ==
    [schema |-> "responses", id |-> id, status |-> "completed", choices |-> <<>>,
     output |-> output, usage |-> usage]

MessageItem(text) ==
    [type |-> "message", text |-> text, name |-> "", arguments |-> <<>>, call_id |-> NoCallId]
FunctionCallItem(name, arguments, call_id) ==
    [type |-> "function_call", text |-> <<>>, name |-> name, arguments |-> arguments,
     call_id |-> call_id]

\* text.trim().is_empty()
IsBlank(text) == \A i \in 1..Len(text) : text[i] \in {SP, NL, CR, "\t"}

\* --------------------------------------------------------------- dispatcher
\* A tool definition of a request: each member is an Option (absent, or not of
\* the type the code reads it as, is None); `function` holds the members of the
\* wrapped shape.
FunctionObject(name, description, parameters) ==
    [name |-> name, description |-> description, parameters |-> parameters]
Tool(type, name, description, parameters, function) ==
    [type |-> type, name |-> name, description |-> description,
     parameters |-> parameters, function |-> function]
\* {type:"function", name, description, parameters}
FlatTool(name, description, parameters) ==
    Tool(Some("function"), name, description, parameters, None)
\* {type:"function", function:{name, description, parameters}}
WrappedTool(name, description, parameters) ==
    Tool(Some("function"), None, None, None,
         Some(FunctionObject(name, description, parameters)))
\* a tool of another type, or without a `type` string
OtherTool(type) == Tool(type, None, None, None, None)

\* json!({"type": "object", "properties": {}})
DefaultParameters == "{type:object,properties:{}}"
\* Value::Null
JsonNull == "null"

\* the `tools` member of a request: absent, an array, or another JSON value
NoTools == [kind |-> "absent", items |-> <<>>]
ToolsArray(items) == [kind |-> "array", items |-> items]
ToolsOther == [kind |-> "other", items |-> <<>>]

\* A JSON value of a request member: its kind ("string", "number", "null",
\* "object", "array"), the characters of a string or the serialization of another
\* value, and the elements of an array.
Value(kind, text, items) == [kind |-> kind, text |-> text, items |-> items]
JsonString(text) == Value("string", text, <<>>)
JsonNumber(digits) == Value("number", digits, <<>>)
NullValue == Value("null", <<"n", "u", "l", "l">>, <<>>)
JsonObject(text) == Value("object", text, <<>>)
JsonArray(items) == Value("array", <<>>, items)

\* item.get(key).and_then(Value::as_str)
AsStr(member) ==
    IF IsSome(member) /\ Unwrap(member).kind = "string" THEN Some(Unwrap(member).text)
    ELSE None

\* item.get(key).and_then(Value::as_array)
AsArray(member) ==
    IF IsSome(member) /\ Unwrap(member).kind = "array" THEN Some(Unwrap(member).items)
    ELSE None

\* Value::to_string: a string is written between quotes
ValueToString(value) ==
    IF value.kind = "string" THEN <<"\"">> \o value.text \o <<"\"">> ELSE value.text

\* An incoming body: whether it parses as JSON and is an object, its `stream`
\* member ("true", "false", "absent", or "other" for a non-boolean), whether it
\* has a string `model`, whether it has the array its schema requires (`input`
\* or `messages`), its `tools` and its `tool_choice` (an Option of a ToolChoice). The
\* members `instructions` (an Option of a Value), `input` (the items of the array
\* when has_array holds), `messages` (the array of a mapped Chat request) and
\* `stream_options` (an Option) are absent or empty unless set.
JsonBody(stream, has_model, has_array, tools, tool_choice) ==
    [parse_ok |-> TRUE, is_object |-> TRUE, stream |-> stream, has_model |-> has_model,
     has_array |-> has_array, tools |-> tools, tool_choice |-> tool_choice,
     instructions |-> None, input |-> <<>>, messages |-> <<>>, stream_options |-> None]

Body(parse_ok, stream, has_model, has_array) ==
    [JsonBody(stream, has_model, has_array, NoTools, None) EXCEPT
        !.parse_ok = parse_ok, !.is_object = parse_ok]

NoBody == Body(FALSE, "absent", FALSE, FALSE)

\* a body that parses as JSON and is not an object (an array, a number, a string)
NonObjectBody == [JsonBody("absent", FALSE, FALSE, NoTools, None) EXCEPT !.is_object = FALSE]

\* stream_default_for_api
StreamDefaultForApi(incoming_api) == incoming_api = "responses"

\* a stream flag that takes every `stream` other than `false` as a wish to stream
StreamFlagTruthy(incoming_api, body) ==
    IF body.stream = "false" THEN FALSE
    ELSE IF body.stream = "absent" THEN StreamDefaultForApi(incoming_api)
    ELSE TRUE

\* stream_flag_for_request
StreamFlagForRequest(incoming_api, body) ==
    IF body.stream = "true" THEN TRUE
    ELSE IF body.stream = "false" THEN FALSE
    ELSE StreamDefaultForApi(incoming_api)

\* the closure of items.retain: whether the tool stays
RetainsTool(tool, drop_tool_types) ==
    ~(IsSome(tool.type) /\ Unwrap(tool.type) \in drop_tool_types)

\* Vec::retain
RECURSIVE Retain(_, _)
Retain(items, drop_tool_types) ==
    IF items = <<>> THEN <<>>
    ELSE (IF RetainsTool(Head(items), drop_tool_types) THEN <<Head(items)>> ELSE <<>>)
         \o Retain(Tail(items), drop_tool_types)

\* a filter that leaves `tool_choice` behind when no tool remains
ApplyRequestFiltersKeepsToolChoice(incoming_api, request, drop_tool_types) ==
    IF ~request.is_object THEN request
    ELSE IF request.tools.kind # "array" THEN request
    ELSE LET items == Retain(request.tools.items, drop_tool_types)
         IN  IF items = <<>>
             THEN [request EXCEPT !.tools = NoTools]
             ELSE [request EXCEPT !.tools = ToolsArray(items)]

\* apply_request_filters: the request after it
ApplyRequestFilters(incoming_api, request, drop_tool_types) ==
    IF ~request.is_object THEN request
    ELSE IF request.tools.kind # "array" THEN request
    ELSE LET items == Retain(request.tools.items, drop_tool_types)
         IN  IF items = <<>>
             THEN [request EXCEPT !.tools = NoTools, !.tool_choice = None]
             ELSE [request EXCEPT !.tools = ToolsArray(items)]

\* Option::unwrap_or
UnwrapOr(o, d) == IF IsSome(o) THEN Unwrap(o) ELSE d

\* the closure of normalize_chat_tools: Some(tool), or None when it is dropped
NormalizeChatTool(tool, drop_tool_types) ==
    IF ~RetainsTool(tool, drop_tool_types) THEN None
    ELSE IF tool.type # Some("function") THEN Some(tool)
    ELSE IF IsSome(tool.function) THEN Some(tool)
    ELSE IF ~IsSome(tool.name) THEN None
    ELSE Some(WrappedTool(tool.name,
                          Some(UnwrapOr(tool.description, "")),
                          Some(UnwrapOr(tool.parameters, DefaultParameters))))

\* normalize_chat_tools
RECURSIVE NormalizeChatTools(_, _)
NormalizeChatTools(tools, drop_tool_types) ==
    IF tools = <<>> THEN <<>>
    ELSE NormalizeChatTool(Head(tools), drop_tool_types)
         \o NormalizeChatTools(Tail(tools), drop_tool_types)

\* the closure of normalize_responses_tools
NormalizeResponsesTool(tool) ==
    IF tool.type # Some("function") THEN Some(tool)
    ELSE IF ~IsSome(tool.function) THEN Some(tool)
    ELSE LET function == Unwrap(tool.function)
         IN  IF ~IsSome(function.name) THEN None
             ELSE Some(FlatTool(function.name,
                                Some(UnwrapOr(function.description, "")),
                                Some(UnwrapOr(function.parameters, DefaultParameters))))

\* normalize_responses_tools
RECURSIVE NormalizeResponsesTools(_)
NormalizeResponsesTools(tools) ==
    IF tools = <<>> THEN <<>>
    ELSE NormalizeResponsesTool(Head(tools)) \o NormalizeResponsesTools(Tail(tools))

\* A `tool_choice` value: a string, an object with its `type`, `name` and
\* `function` members (each an Option; `function` holds a FunctionChoice), or a
\* value of another kind ("null", "number", "bool", "array").
ToolChoice(kind, str, type, name, function) ==
    [kind |-> kind, str |-> str, type |-> type, name |-> name, function |-> function]
ChoiceString(str) == ToolChoice("string", str, None, None, None)
ChoiceObject(type, name, function) == ToolChoice("object", "", type, name, function)
ChoiceOther(kind) == ToolChoice(kind, "", None, None, None)
\* the value of a `function` member: an object with its `name` member, or a
\* value of another kind
FunctionChoice(kind, name) == [kind |-> kind, name |-> name]

FUNCTION == <<"f", "u", "n", "c", "t", "i", "o", "n">>

\* a normalization that rewraps every object that has a `name`
NormalizeToolChoiceAnyType(tool_choice) ==
    IF tool_choice.kind = "string" THEN ChoiceString(tool_choice.str)
    ELSE IF tool_choice.kind # "object" THEN ChoiceString("auto")
    ELSE IF IsSome(tool_choice.function) THEN tool_choice
    ELSE IF IsSome(AsStr(tool_choice.name))
    THEN ChoiceObject(Some(JsonString(FUNCTION)), None,
                      Some(FunctionChoice("object", Some(JsonString(Unwrap(AsStr(tool_choice.name)))))))
    ELSE tool_choice

\* normalize_tool_choice
NormalizeToolChoice(tool_choice) ==
    IF tool_choice.kind = "string" THEN ChoiceString(tool_choice.str)
    ELSE IF tool_choice.kind # "object" THEN ChoiceString("auto")
    ELSE IF IsSome(tool_choice.function) THEN tool_choice
    ELSE IF AsStr(tool_choice.type) = Some(FUNCTION) /\ IsSome(AsStr(tool_choice.name))
    THEN ChoiceObject(Some(JsonString(FUNCTION)), None,
                      Some(FunctionChoice("object", Some(JsonString(Unwrap(AsStr(tool_choice.name)))))))
    ELSE ChoiceString("auto")

\* normalize_responses_tool_choice
NormalizeResponsesToolChoice(choice) ==
    IF /\ choice.kind = "object"
       /\ AsStr(choice.type) = Some(FUNCTION)
       /\ IsSome(choice.function)
       /\ Unwrap(choice.function).kind = "object"
       /\ IsSome(AsStr(Unwrap(choice.function).name))
    THEN ChoiceObject(Some(JsonString(FUNCTION)),
                      Some(JsonString(Unwrap(AsStr(Unwrap(choice.function).name)))), None)
    ELSE choice

\* Result<Value>
Ok(value) == [ok |-> TRUE, error |-> "", value |-> value]
Err(error) == [ok |-> FALSE, error |-> error, value |-> NoBody]

\* the `tools` and `tool_choice` members of a mapped request, after
\* `if out.get("tools")...is_some_and(Vec::is_empty) { remove both }`
WithTools(value, tools, tool_choice) ==
    IF tools = <<>>
    THEN [value EXCEPT !.tools = NoTools, !.tool_choice = None]
    ELSE [value EXCEPT !.tools = ToolsArray(tools), !.tool_choice = Some(tool_choice)]

StreamMember(stream) == IF stream THEN "true" ELSE "false"

\* An item of the `input` array: its members, each an Option of a Value. The
\* elements of a `content` or `output` array are content parts.
InputItem(type) ==
    [type |-> type, role |-> None, content |-> None, name |-> None, call_id |-> None,
     arguments |-> None, output |-> None, result |-> None]
ContentPart(type, text) == [type |-> type, text |-> text]

SYSTEM == <<"s", "y", "s", "t", "e", "m">>
USER == <<"u", "s", "e", "r">>
ASSISTANT == <<"a", "s", "s", "i", "s", "t", "a", "n", "t">>
TOOL == <<"t", "o", "o", "l">>
MESSAGE == <<"m", "e", "s", "s", "a", "g", "e">>
FUNCTION_CALL == <<"f", "u", "n", "c", "t", "i", "o", "n", "_", "c", "a", "l", "l">>
OUTPUT_SUFFIX == <<"_", "o", "u", "t", "p", "u", "t">>
FUNCTION_CALL_OUTPUT == FUNCTION_CALL \o OUTPUT_SUFFIX
CUSTOM_TOOL_CALL_OUTPUT ==
    <<"c", "u", "s", "t", "o", "m", "_", "t", "o", "o", "l", "_", "c", "a", "l", "l">>
    \o OUTPUT_SUFFIX
MCP_TOOL_CALL_OUTPUT ==
    <<"m", "c", "p", "_", "t", "o", "o", "l", "_", "c", "a", "l", "l">> \o OUTPUT_SUFFIX
INPUT_TEXT == <<"i", "n", "p", "u", "t", "_", "t", "e", "x", "t">>
OUTPUT_TEXT == <<"o", "u", "t", "p", "u", "t", "_", "t", "e", "x", "t">>

\* a message of the Chat request: {role, content}, with `tool_call_id` for a tool
\* message and `tool_calls` for an assistant message that calls a function
ChatRequestMessage(role, content) ==
    [role |-> role, content |-> content, tool_call_id |-> None, tool_calls |-> <<>>]
\* the id of a tool call: the text given, or format!("call_{}", Uuid::now_v7())
GivenCallId(text) == [text |-> text, fresh |-> FALSE]
FreshCallId == [text |-> <<>>, fresh |-> TRUE]
ChatRequestToolCall(id, name, arguments) ==
    [id |-> id, type |-> "function", function |-> [name |-> name, arguments |-> arguments]]

\* the texts flatten_content_items collects, in order
RECURSIVE ContentParts(_)
ContentParts(items) ==
    IF items = <<>> THEN <<>>
    ELSE LET item == Head(items)
             item_type == UnwrapOr(AsStr(item.type), <<>>)
             text == AsStr(item.text)
         IN  (IF item_type \in {INPUT_TEXT, OUTPUT_TEXT} /\ IsSome(text) /\ Unwrap(text) # <<>>
              THEN <<Unwrap(text)>> ELSE <<>>)
             \o ContentParts(Tail(items))

\* flatten_content_items
FlattenContentItems(items) == JoinNL(ContentParts(items))

\* function_output_to_text
FunctionOutputToText(value) ==
    IF value.kind = "string" THEN value.text
    ELSE IF value.kind = "array" THEN FlattenContentItems(value.items)
    ELSE ValueToString(value)

\* function_arguments_to_text
FunctionArgumentsToText(value) ==
    IF value.kind = "string" THEN value.text ELSE ValueToString(value)

\* the `for tc in tool_calls` loop of chat_json_to_responses_json
RECURSIVE UnaryFunctionCallItems(_, _)
UnaryFunctionCallItems(tcs, u) ==
    IF tcs = <<>> THEN [items |-> <<>>, uuid |-> u]
    ELSE LET tc == Head(tcs)
             u1 == IF IsSome(tc.id) THEN u ELSE u + 1
             call_id == IF IsSome(tc.id) THEN [id |-> Unwrap(tc.id), uuid |-> 0, index |-> 0]
                        ELSE [id |-> "", uuid |-> u1, index |-> 0]
             name == IF IsSome(tc.name) THEN Unwrap(tc.name) ELSE "unknown_function"
             arguments == IF IsSome(tc.arguments)
                          THEN FunctionArgumentsToText(Unwrap(tc.arguments))
                          ELSE <<"{", "}">>
             rest == UnaryFunctionCallItems(Tail(tcs), u1)
         IN  [items |-> <<FunctionCallItem(name, arguments, call_id)>> \o rest.items,
              uuid |-> rest.uuid]

\* the message item of chat_json_to_responses_json: `if !text.trim().is_empty()`
UnaryMessageItemsKeepsBlank(text) == <<MessageItem(text)>>
UnaryMessageItems(text) == IF IsBlank(text) THEN <<>> ELSE <<MessageItem(text)>>

\* chat_json_to_responses_json: the Responses document and the uuids drawn
ChatJsonToResponsesJson(chat, response_id, u) ==
    LET first == IF Len(chat.choices) > 0 THEN Some(chat.choices[1]) ELSE None
        text == IF IsSome(first) /\ IsSome(Unwrap(first).content)
                THEN FunctionOutputToText(Unwrap(Unwrap(first).content)) ELSE <<>>
        msg == IF IsSome(first) THEN UnaryMessageItems(text) ELSE <<>>
        fc == IF IsSome(first) THEN UnaryFunctionCallItems(Unwrap(first).tool_calls, u)
              ELSE [items |-> <<>>, uuid |-> u]
        usage == IF IsSome(chat.usage) THEN Some(ResponsesUsage(Unwrap(chat.usage))) ELSE None
    IN  [json |-> ResponsesJson(response_id, msg \o fc.items, usage), uuid |-> fc.uuid]

\* the call_id and arguments of the tool call made from a function_call item
FunctionCallId(item) ==
    LET given == AsStr(item.call_id)
    IN  IF IsSome(given) /\ ~IsBlank(Unwrap(given)) THEN GivenCallId(Unwrap(given))
        ELSE FreshCallId
FunctionCallArguments(item) ==
    IF IsSome(item.arguments) THEN FunctionArgumentsToText(Unwrap(item.arguments))
    ELSE <<"{", "}">>

\* a function_call arm that pushes a message also for an item without a name
FunctionCallMessagesKeepsUnnamed(item) ==
    LET name == UnwrapOr(AsStr(item.name), <<>>)
    IN  <<[ChatRequestMessage(ASSISTANT, <<>>) EXCEPT
              !.tool_calls = <<ChatRequestToolCall(FunctionCallId(item), name,
                                                   FunctionCallArguments(item))>>]>>

\* the "function_call" arm: the assistant message with one tool call, or nothing
FunctionCallMessages(item) ==
    LET name == UnwrapOr(AsStr(item.name), <<>>)
    IN  IF name = <<>> THEN <<>>
        ELSE <<[ChatRequestMessage(ASSISTANT, <<>>) EXCEPT
                   !.tool_calls = <<ChatRequestToolCall(FunctionCallId(item), name,
                                                        FunctionCallArguments(item))>>]>>

\* the body of `for item in input_items`: the messages pushed for one item
MapInputItem(item) ==
    LET item_type == UnwrapOr(AsStr(item.type), <<>>)
    IN  IF item_type = MESSAGE
        THEN LET role == UnwrapOr(AsStr(item.role), USER)
                 items == AsArray(item.content)
                 content == IF IsSome(items) THEN FlattenContentItems(Unwrap(items)) ELSE <<>>
             IN  IF ~IsBlank(content) THEN <<ChatRequestMessage(role, content)>> ELSE <<>>
        ELSE IF item_type = FUNCTION_CALL
        THEN FunctionCallMessages(item)
        ELSE IF item_type = FUNCTION_CALL_OUTPUT
        THEN LET call_id == UnwrapOr(AsStr(item.call_id), <<>>)
                 output_text == IF IsSome(item.output)
                                THEN FunctionOutputToText(Unwrap(item.output)) ELSE <<>>
             IN  <<[ChatRequestMessage(TOOL, output_text) EXCEPT !.tool_call_id = Some(call_id)]>>
        ELSE IF item_type = CUSTOM_TOOL_CALL_OUTPUT
        THEN LET call_id == UnwrapOr(AsStr(item.call_id), <<>>)
                 output_text == UnwrapOr(AsStr(item.output), <<>>)
             IN  <<[ChatRequestMessage(TOOL, output_text) EXCEPT !.tool_call_id = Some(call_id)]>>
        ELSE IF item_type = MCP_TOOL_CALL_OUTPUT
        THEN LET call_id == UnwrapOr(AsStr(item.call_id), <<>>)
                 output_text == IF IsSome(item.result)
                                THEN ValueToString(Unwrap(item.result)) ELSE <<>>
             IN  <<[ChatRequestMessage(TOOL, output_text) EXCEPT !.tool_call_id = Some(call_id)]>>
        ELSE <<>>

\* the `for item in input_items` loop
RECURSIVE MapInputItems(_)
MapInputItems(input_items) ==
    IF input_items = <<>> THEN <<>>
    ELSE MapInputItem(Head(input_items)) \o MapInputItems(Tail(input_items))

\* the system message pushed for the `instructions` member
SystemMessages(member) ==
    LET instructions == UnwrapOr(AsStr(member), <<>>)
    IN  IF ~IsBlank(instructions) THEN <<ChatRequestMessage(SYSTEM, instructions)>> ELSE <<>>

\* json!({ "include_usage": true })
IncludeUsage == "{include_usage:true}"

\* a `stream_options` member that is kept in unary mode
StreamOptionsKept(stream) == Some(IncludeUsage)

\* the `stream_options` member after `if !stream { obj.remove("stream_options") }`
StreamOptions(stream) == IF stream THEN Some(IncludeUsage) ELSE None

\* map_responses_to_chat_request_with_stream: the `model`, `messages`, `stream`,
\* `stream_options`, `tools` and `tool_choice` of the chat request
MapResponsesToChatRequestWithStream(request, drop_tool_types, stream) ==
    IF ~request.has_model THEN Err("missing model")
    ELSE IF ~request.has_array THEN Err("missing input array")
    ELSE LET tools == IF request.tools.kind = "array" THEN request.tools.items ELSE <<>>
             tool_choice == UnwrapOr(request.tool_choice, ChoiceString("auto"))
             messages == SystemMessages(request.instructions) \o MapInputItems(request.input)
             chat_tools == NormalizeChatTools(tools, drop_tool_types)
             chat_tool_choice == NormalizeToolChoice(tool_choice)
             chat_request == [JsonBody(StreamMember(stream), TRUE, TRUE, NoTools, None)
                                 EXCEPT !.messages = messages,
                                        !.stream_options = StreamOptions(stream)]
         IN  Ok(WithTools(chat_request, chat_tools, chat_tool_choice))

\* A message of an incoming Chat request: its `role`, `content` and `tool_call_id`
\* members, each an Option of a Value. The elements of a `content` array are
\* parts with `type`, `text` and `content` members.
ChatMessageJson(role, content, tool_call_id) ==
    [role |-> role, content |-> content, tool_call_id |-> tool_call_id]
ChatPart(type, text, content) == [type |-> type, text |-> text, content |-> content]

\* json!({"type":"input_text","text":text})
InputTextPartAsOutputText(text) ==
    ContentPart(Some(JsonString(OUTPUT_TEXT)), Some(JsonString(text)))
InputTextPart(text) == ContentPart(Some(JsonString(INPUT_TEXT)), Some(JsonString(text)))

\* the filter_map over the elements of an array content
RECURSIVE ChatPartsToInputItems(_)
ChatPartsToInputItems(items) ==
    IF items = <<>> THEN <<>>
    ELSE LET item == Head(items)
         IN  (IF IsSome(AsStr(item.text)) THEN <<InputTextPart(Unwrap(AsStr(item.text)))>>
              ELSE IF IsSome(AsStr(item.content))
              THEN <<InputTextPart(Unwrap(AsStr(item.content)))>>
              ELSE <<>>)
             \o ChatPartsToInputItems(Tail(items))

\* chat_message_content_to_input_items
ChatMessageContentToInputItems(content) ==
    IF ~IsSome(content) THEN <<>>
    ELSE LET value == Unwrap(content)
         IN  IF value.kind = "string"
             THEN (IF IsBlank(value.text) THEN <<>> ELSE <<InputTextPart(value.text)>>)
             ELSE IF value.kind = "array" THEN ChatPartsToInputItems(value.items)
             ELSE LET as_text == ValueToString(value)
                  IN  IF IsBlank(as_text) THEN <<>> ELSE <<InputTextPart(as_text)>>

\* a message pushed also when its content gives no part
MessageInputItemsKeepsEmpty(role, content) ==
    <<[InputItem(Some(JsonString(MESSAGE))) EXCEPT
          !.role = Some(JsonString(role)), !.content = Some(JsonArray(content))]>>

\* `if content.is_empty() { continue; }` and the push of the message item
MessageInputItems(role, content) ==
    IF content = <<>> THEN <<>>
    ELSE <<[InputItem(Some(JsonString(MESSAGE))) EXCEPT
               !.role = Some(JsonString(role)), !.content = Some(JsonArray(content))]>>

\* the body of `for message in messages`: the items pushed for one message
MapChatMessage(message) ==
    LET role == UnwrapOr(AsStr(message.role), USER)
    IN  IF role = TOOL
        THEN LET call_id == UnwrapOr(AsStr(message.tool_call_id), <<>>)
                 output == IF IsSome(message.content)
                           THEN FunctionOutputToText(Unwrap(message.content)) ELSE <<>>
             IN  <<[InputItem(Some(JsonString(FUNCTION_CALL_OUTPUT))) EXCEPT
                       !.call_id = Some(JsonString(call_id)),
                       !.output = Some(JsonString(output))]>>
        ELSE MessageInputItems(role, ChatMessageContentToInputItems(message.content))

\* the `for message in messages` loop
RECURSIVE MapChatMessages(_)
MapChatMessages(messages) ==
    IF messages = <<>> THEN <<>>
    ELSE MapChatMessage(Head(messages)) \o MapChatMessages(Tail(messages))

\* a message that map_responses_to_chat_request_with_stream built, as a
\* `messages` element read by map_chat_to_responses_request: `role` and `content`
\* are strings, `tool_call_id` is a string when the message has one
ChatMessageJsonOf(message) ==
    ChatMessageJson(Some(JsonString(message.role)), Some(JsonString(message.content)),
                    IF IsSome(message.tool_call_id)
                    THEN Some(JsonString(Unwrap(message.tool_call_id))) ELSE None)

\* map_chat_to_responses_request: the `model`, `input`, `stream`, `tools` and
\* `tool_choice` of the responses request
MapChatToResponsesRequest(request, stream) ==
    IF ~request.has_model THEN Err("missing model")
    ELSE IF ~request.has_array THEN Err("missing messages array")
    ELSE LET tools == IF request.tools.kind = "array"
                      THEN NormalizeResponsesTools(request.tools.items) ELSE <<>>
             tool_choice == IF IsSome(request.tool_choice)
                            THEN NormalizeResponsesToolChoice(Unwrap(request.tool_choice))
                            ELSE ChoiceString("auto")
             input == MapChatMessages(request.messages)
         IN  Ok(WithTools([JsonBody(StreamMember(stream), TRUE, TRUE, NoTools, None)
                              EXCEPT !.input = input],
                          tools, tool_choice))

\* set_stream_flag
SetStreamFlag(payload, stream) ==
    IF payload.is_object THEN [payload EXCEPT !.stream = StreamMember(stream)] ELSE payload

\* build_upstream_payload: Ok(payload) or Err
BuildUpstreamPayload(request, incoming_api, upstream_wire, stream) ==
    LET mapped == IF incoming_api = upstream_wire THEN Ok(request)
                  ELSE IF incoming_api = "responses"
                  THEN MapResponsesToChatRequestWithStream(request, {}, stream)
                  ELSE MapChatToResponsesRequest(request, stream)
    IN  IF mapped.ok THEN Ok(SetStreamFlag(mapped.value, stream)) ELSE mapped

NoJson == [error |-> "", message |-> NoMessage, doc |-> None]
\* json_error_response
JsonErrorResponse(code, message) == [error |-> code, message |-> message, doc |-> None]
\* json_success_response
JsonSuccessResponse(doc) == [error |-> "", message |-> NoMessage, doc |-> Some(doc)]

\* What the upstream does with a POST: the send fails, or it answers with a status;
\* body is the text of a non-2xx answer, None when reading it fails.
Outcome(kind, status, body) == [kind |-> kind, status |-> status, body |-> body]
NoOutcome == Outcome("none", 0, None)

NoRequest ==
    [pc |-> "idle", api |-> "", body |-> NoBody, wants_stream |-> FALSE, rid |-> 0,
     posts |-> 0, payload_stream |-> "absent", outcome |-> NoOutcome, status |-> 0,
     framing |-> "none", json |-> NoJson, upstream_json |-> None]

\* an error response that is a JSON document whatever the mode is
ErrorResponseAlwaysJson(q, stream, code, message, u) ==
    [req |-> [q EXCEPT !.pc = "done", !.status = 200, !.framing = "json",
                       !.json = JsonErrorResponse(code, message)],
     st |-> NoStream, uuid |-> u]

\* an error response that carries the error in the HTTP status of a JSON answer
ErrorResponseBadGateway(q, stream, code, message, u) ==
    IF stream
    THEN [req |-> [q EXCEPT !.pc = "done", !.status = 200, !.framing = "sse"],
          st |-> SseErrorBody(u + 1, code, message), uuid |-> u + 1]
    ELSE [req |-> [q EXCEPT !.pc = "done", !.status = 502, !.framing = "json",
                            !.json = JsonErrorResponse(code, message)],
          st |-> NoStream, uuid |-> u]

\* an error response that is held back while a failed send is tried once more
ErrorResponseRetriesSend(q, stream, code, message, u) ==
    IF code = "upstream_transport_error"
    THEN [req |-> [q EXCEPT !.pc = "sent", !.posts = @ + 1, !.outcome = NoOutcome],
          st |-> NoStream, uuid |-> u]
    ELSE IF stream
    THEN [req |-> [q EXCEPT !.pc = "done", !.status = 200, !.framing = "sse"],
          st |-> SseErrorBody(u + 1, code, message), uuid |-> u + 1]
    ELSE [req |-> [q EXCEPT !.pc = "done", !.status = 200, !.framing = "json",
                            !.json = JsonErrorResponse(code, message)],
          st |-> NoStream, uuid |-> u]

\* the response of error_response_for_stream: request and stream records after it
ErrorResponseForStream(q, stream, code, message, u) ==
    IF stream
    THEN [req |-> [q EXCEPT !.pc = "done", !.status = 200, !.framing = "sse"],
          st |-> SseErrorBody(u + 1, code, message), uuid |-> u + 1]
    ELSE [req |-> [q EXCEPT !.pc = "done", !.status = 200, !.framing = "json",
                            !.json = JsonErrorResponse(code, message)],
          st |-> NoStream, uuid |-> u]

\* ------------------------------------------------- upstream request headers
\* A HeaderMap is modelled as the sequence of its (name, value) entries, names in
\* lower case as the map keeps them; a name may occur more than once. A value is
\* the sequence of its words.
Header(name, value) == [name |-> name, value |-> value]

FORWARDED_UPSTREAM_HEADERS ==
    <<"openai-organization", "openai-project", "x-openai-subagent",
      "x-codex-turn-state", "x-codex-turn-metadata">>

\* state.api_key
api_key == "configured-key"

\* the values a header map holds for a name, in their order
RECURSIVE HeaderValues(_, _)
HeaderValues(headers, name) ==
    IF headers = <<>> THEN <<>>
    ELSE (IF Head(headers).name = name THEN <<Head(headers).value>> ELSE <<>>)
         \o HeaderValues(Tail(headers), name)

\* HeaderMap::get: the first value of the name, None when the name is absent
HeaderGet(headers, name) ==
    LET values == HeaderValues(headers, name)
    IN  IF values = <<>> THEN None ELSE Some(Head(values))

\* RequestBuilder::bearer_auth
BearerAuth(key) == Header("authorization", <<"Bearer", key>>)

\* the `for header_name in FORWARDED_UPSTREAM_HEADERS` loop from position i on
RECURSIVE ForwardHeaders(_, _)
ForwardHeaders(headers, i) ==
    IF i > Len(FORWARDED_UPSTREAM_HEADERS) THEN <<>>
    ELSE LET header_name == FORWARDED_UPSTREAM_HEADERS[i]
             value == HeaderGet(headers, header_name)
         IN  (IF IsSome(value) THEN <<Header(header_name, Unwrap(value))>> ELSE <<>>)
             \o ForwardHeaders(headers, i + 1)

\* the headers of upstream_request: bearer_auth, Content-Type (which .json() then
\* leaves alone) and the forwarded headers of the caller
UpstreamRequestHeaders(headers, key) ==
    <<BearerAuth(key), Header("content-type", <<"application/json">>)>>
    \o ForwardHeaders(headers, 1)

\* redact_for_logging
RedactForLoggingKeepsSecret(secret) == secret
RedactForLogging(secret) == IF secret = "" THEN "<empty>" ELSE "<redacted>"

\* HeaderValue::to_str, which fails on a character outside visible ASCII
HeaderValueToStr(value) ==
    IF \E i \in 1..Len(value) : value[i] \in NonAscii THEN <<"<non-utf8>">> ELSE value

\* the `for header_name in FORWARDED_UPSTREAM_HEADERS` loop of
\* upstream_headers_for_logging from position i on
RECURSIVE ForwardedForLogging(_, _)
ForwardedForLogging(headers, i) ==
    IF i > Len(FORWARDED_UPSTREAM_HEADERS) THEN <<>>
    ELSE LET header_name == FORWARDED_UPSTREAM_HEADERS[i]
             value == HeaderGet(headers, header_name)
         IN  (IF IsSome(value) THEN <<Header(header_name, HeaderValueToStr(Unwrap(value)))>>
              ELSE <<>>)
             \o ForwardedForLogging(headers, i + 1)

\* upstream_headers_for_logging: the members of the logged object
UpstreamHeadersForLogging(headers, key) ==
    <<Header("authorization", <<"Bearer", RedactForLogging(key)>>),
      Header("content-type", <<"application/json">>)>>
    \o ForwardedForLogging(headers, 1)

\* upstream_messages_for_logging
UpstreamMessagesForLogging(upstream_wire, payload) ==
    IF ~(payload.is_object /\ payload.has_array) THEN None
    ELSE IF upstream_wire = "chat" THEN Some(payload.messages)
    ELSE Some(SelectSeq(payload.input, LAMBDA item : AsStr(item.type) = Some(MESSAGE)))

\* A line of the log: its fixed text, and the value it interpolates (a body, the
\* messages, or the members of the headers object).
LogLine(text, body, messages, headers) ==
    [text |-> text, body |-> body, messages |-> messages, headers |-> headers]

\* the info! lines of handle_incoming up to the upstream request, for a key
VerboseLog(incoming_body, upstream_wire, headers, key, p) ==
    <<LogLine("incoming request body", incoming_body, None, <<>>)>>
    \o (IF incoming_body.parse_ok /\ p.payload.ok
        THEN LET messages == UpstreamMessagesForLogging(upstream_wire, p.payload.value)
             IN  (IF IsSome(messages)
                  THEN <<LogLine("upstream messages", NoBody, messages, <<>>)>> ELSE <<>>)
                 \o <<LogLine("upstream headers", NoBody, None,
                              UpstreamHeadersForLogging(headers, key)),
                      LogLine("upstream payload", p.payload.value, None, <<>>)>>
        ELSE <<>>)

Running == exitTimer # "exited"

\* handle_incoming from the parsed body to the upstream payload: the chosen mode,
\* the request after filtering, and the result of build_upstream_payload
PreparePayload(incoming_api, body, drop_tool_types, upstream_wire) ==
    LET wants_stream == StreamFlagForRequest(incoming_api, body)
        request == ApplyRequestFilters(incoming_api, body, drop_tool_types)
    IN  [wants_stream |-> wants_stream,
         request |-> request,
         payload |-> BuildUpstreamPayload(request, incoming_api, upstream_wire, wants_stream)]

\* handle_incoming up to upstream_request.send().await
HandleIncoming(r, incoming_api, body) ==
    /\ Running
    /\ req[r].pc = "idle"
    /\ LET q0 == [req[r] EXCEPT !.api = incoming_api, !.body = body]
           p == PreparePayload(incoming_api, body, cfg.drop_tool_types, cfg.upstream_wire)
           response_id == uuid + 1
           res == IF ~body.parse_ok
                  THEN ErrorResponseForStream(q0, StreamDefaultForApi(incoming_api),
                                              "invalid_request",
                                              Message("failed to parse request JSON", 0, <<>>),
                                              uuid)
                  ELSE IF ~p.payload.ok
                  THEN ErrorResponseForStream(
                           [q0 EXCEPT !.wants_stream = p.wants_stream, !.rid = response_id],
                           p.wants_stream, "invalid_request",
                           Message(p.payload.error, 0, <<>>), response_id)
                  ELSE [req |-> [q0 EXCEPT !.wants_stream = p.wants_stream,
                                           !.rid = response_id,
                                           !.pc = "sent",
                                           !.posts = @ + 1,
                                           !.payload_stream = p.payload.value.stream],
                        st |-> NoStream, uuid |-> response_id]
       IN  /\ req' = [req EXCEPT ![r] = res.req]
           /\ st' = [st EXCEPT ![r] = res.st]
           /\ uuid' = res.uuid
    /\ UNCHANGED <<cfg, exitTimer, shutdownLog, par, pay, una, conf>>

\* .text().await.unwrap_or_else(|_| "<failed to read error body>")
FailedToReadErrorBody ==
    <<"<", "f", "a", "i", "l", "e", "d", " ", "t", "o", " ", "r", "e", "a", "d", " ",
      "e", "r", "r", "o", "r", " ", "b", "o", "d", "y", ">">>
\* an error body that is left out of the message
ErrorBodyOmitted(body) == <<>>

ErrorBodyText(body) == UnwrapOr(body, FailedToReadErrorBody)

\* the dispatcher's choice of the stream body by the upstream wire
StreamBodyFor(upstream_wire, response_id) ==
    IF upstream_wire = "chat" THEN TranslateStart(response_id) ELSE PassthroughStart

\* handle_incoming from the answer of send() to the returned streaming response,
\* the error response, or the await of the unary body
UpstreamResponds(r, outcome) ==
    /\ Running
    /\ req[r].pc = "sent"
    /\ LET q == [req[r] EXCEPT !.outcome = outcome]
           res == IF outcome.kind = "transport_error"
                  THEN ErrorResponseForStream(q, q.wants_stream, "upstream_transport_error",
                                              Message("failed to call upstream endpoint", 0, <<>>),
                                              uuid)
                  ELSE IF outcome.kind = "non_2xx"
                  THEN ErrorResponseForStream(q, q.wants_stream, "upstream_error",
                                              Message("upstream returned", outcome.status,
                                                      ErrorBodyText(outcome.body)),
                                              uuid)
                  ELSE IF q.wants_stream
                  THEN [req |-> [q EXCEPT !.pc = "streaming", !.status = 200, !.framing = "sse"],
                        st |-> StreamBodyFor(cfg.upstream_wire, q.rid), uuid |-> uuid]
                  ELSE [req |-> [q EXCEPT !.pc = "body"], st |-> NoStream, uuid |-> uuid]
       IN  /\ req' = [req EXCEPT ![r] = res.req]
           /\ st' = [st EXCEPT ![r] = res.st]
           /\ uuid' = res.uuid
    /\ UNCHANGED <<cfg, exitTimer, shutdownLog, par, pay, una, conf>>

\* `let response_json = match state.upstream_wire { ... }`
UnaryResponseJson(incoming_api, upstream_wire, upstream_json, response_id, u) ==
    IF upstream_wire = "chat"
    THEN ChatJsonToResponsesJson(upstream_json, response_id, u)
    ELSE [json |-> upstream_json, uuid |-> u]

\* handle_incoming from upstream_response.json().await to the unary response;
\* doc is the decoded body, None when it is not JSON
UpstreamBody(r, doc) ==
    /\ Running
    /\ req[r].pc = "body"
    /\ LET q == req[r]
           out == UnaryResponseJson(q.api, cfg.upstream_wire, Unwrap(doc), q.rid, uuid)
       IN  IF ~IsSome(doc)
           THEN /\ req' = [req EXCEPT ![r] = [q EXCEPT !.pc = "done", !.status = 200,
                                                       !.framing = "json",
                                                       !.json = JsonErrorResponse(
                                                                    "upstream_decode_error",
                                                                    Message("failed to decode upstream JSON", 0, <<>>))]]
                /\ uuid' = uuid
           ELSE /\ req' = [req EXCEPT ![r] = [q EXCEPT !.pc = "done", !.status = 200,
                                                       !.framing = "json",
                                                       !.upstream_json = doc,
                                                       !.json = JsonSuccessResponse(out.json)]]
                /\ uuid' = out.uuid
    /\ UNCHANGED <<cfg, st, exitTimer, shutdownLog, par, pay, una, conf>>

\* ------------------------------------------------------ the stream generators
\* a read whose payloads also reach the accumulators of the other streams
TranslateReadSharedAccumulator(r, chunk) ==
    /\ Running
    /\ st[r].kind = "translate" /\ st[r].pc = "loop"
    /\ st' = [q \in Reqs |->
                IF q = r THEN TranslateChunk(st[r], chunk)
                ELSE IF st[q].kind = "translate" /\ st[q].pc = "loop"
                THEN [st[q] EXCEPT !.acc = TranslateChunk(st[q], chunk).acc]
                ELSE st[q]]
    /\ UNCHANGED <<cfg, req, uuid, exitTimer, shutdownLog, par, pay, una, conf>>

TranslateRead(r, chunk) ==
    /\ Running
    /\ st[r].kind = "translate" /\ st[r].pc = "loop"
    /\ st' = [st EXCEPT ![r] = TranslateChunk(st[r], chunk)]
    /\ UNCHANGED <<cfg, req, uuid, exitTimer, shutdownLog, par, pay, una, conf>>

TranslateError(r) ==
    /\ Running
    /\ st[r].kind = "translate" /\ st[r].pc = "loop"
    /\ st' = [st EXCEPT ![r] = TranslateReadError(st[r])]
    /\ UNCHANGED <<cfg, req, uuid, exitTimer, shutdownLog, par, pay, una, conf>>

\* an end of stream taken by a generator that runs on without its caller
TranslateEofDetached(r) ==
    /\ Running
    /\ st[r].kind = "translate" /\ st[r].pc \in {"loop", "dropped"}
    /\ LET e == TranslateEnd(st[r], uuid)
       IN  /\ st' = [st EXCEPT ![r] = e.stream]
           /\ uuid' = e.uuid
    /\ UNCHANGED <<cfg, req, exitTimer, shutdownLog, par, pay, una, conf>>

TranslateEof(r) ==
    /\ Running
    /\ st[r].kind = "translate" /\ st[r].pc = "loop"
    /\ LET res == TranslateEnd(st[r], uuid)
       IN  /\ st' = [st EXCEPT ![r] = res.stream]
           /\ uuid' = res.uuid
    /\ UNCHANGED <<cfg, req, exitTimer, shutdownLog, par, pay, una, conf>>

PassthroughRead(r, c) ==
    /\ Running
    /\ st[r].kind = "passthrough" /\ st[r].pc = "loop"
    /\ st' = [st EXCEPT ![r] = PassthroughChunk(st[r], c)]
    /\ UNCHANGED <<cfg, req, uuid, exitTimer, shutdownLog, par, pay, una, conf>>

PassthroughError(r) ==
    /\ Running
    /\ st[r].kind = "passthrough" /\ st[r].pc = "loop"
    /\ st' = [st EXCEPT ![r] = PassthroughReadError(st[r])]
    /\ UNCHANGED <<cfg, req, uuid, exitTimer, shutdownLog, par, pay, una, conf>>

PassthroughEof(r) ==
    /\ Running
    /\ st[r].kind = "passthrough" /\ st[r].pc = "loop"
    /\ st' = [st EXCEPT ![r] = PassthroughEnd(st[r])]
    /\ UNCHANGED <<cfg, req, uuid, exitTimer, shutdownLog, par, pay, una, conf>>

\* The caller of a streaming response disconnects: the response body, which is the
\* generator with its parser, accumulator and upstream stream, is dropped where
\* it is suspended. The generator runs only when the body is polled.
CallerDisconnects(r) ==
    /\ Running
    /\ req[r].pc = "streaming"
    /\ st[r].kind \in {"translate", "passthrough"} /\ st[r].pc = "loop"
    /\ st' = [st EXCEPT ![r] = [@ EXCEPT !.pc = "dropped"]]
    /\ UNCHANGED <<cfg, req, uuid, exitTimer, shutdownLog, par, pay, una, conf>>

\* ------------------------------------------------------------------ shutdown
\* GET /shutdown
\* a handler that schedules the exit whatever http_shutdown is
ShutdownIgnoresFlag ==
    /\ Running
    /\ Len(shutdownLog) < MaxShutdowns
    /\ shutdownLog' = Append(shutdownLog, IF cfg.http_shutdown THEN 200 ELSE 404)
    /\ exitTimer' = "scheduled"
    /\ UNCHANGED <<cfg, req, st, uuid, par, pay, una, conf>>

\* shutdown()
Shutdown ==
    /\ Running
    /\ Len(shutdownLog) < MaxShutdowns
    /\ IF ~cfg.http_shutdown
       THEN /\ shutdownLog' = Append(shutdownLog, 404)
            /\ UNCHANGED exitTimer
       ELSE /\ shutdownLog' = Append(shutdownLog, 200)
            /\ exitTimer' = "scheduled"
    /\ UNCHANGED <<cfg, req, st, uuid, par, pay, una, conf>>

\* the spawned task: sleep(50 ms), then std::process::exit(0)
ProcessExit ==
    /\ exitTimer = "scheduled"
    /\ exitTimer' = "exited"
    /\ UNCHANGED <<cfg, req, st, uuid, shutdownLog, par, pay, una, conf>>


\* ------------------------------------------------------------ upstream inputs
DataLine(p) == DATA_PREFIX \o <<SP>> \o p \o <<NL>>
SseMessage(p) == DataLine(p) \o <<NL>>

\* chunks an upstream Chat stream may deliver
ChunkMenu ==
    { SseMessage(<<"A">>), SseMessage(<<"B">>), SseMessage(<<"M">>),
      SseMessage(<<"P">>), SseMessage(<<"Q">>), SseMessage(<<"R">>), SseMessage(<<"T">>),
      SseMessage(<<"E">>) \o SseMessage(<<"U">>),
      SseMessage(DONE),
      SseMessage(<<"x">>),
      SseMessage(<<"x">>) \o SseMessage(<<"S">>) \o SseMessage(DONE) \o SseMessage(<<"A">>),
      DataLine(<<"A">>),
      <<NL>>,
      <<"d", "a">>,
      <<"t", "a", ":", "B", CR, NL, CR, NL>>,
      SseMessage(<<"Z">>) \o <<"e", "v", "e", "n", "t", ":", SP, "m", NL>>,
      SseMessage(<<"C3", "A9">>),
      DATA_PREFIX \o <<SP, "C3">>,
      <<"A9", NL, NL>> }

\* chunks of the dispatcher model's upstream Chat stream
DispatchChunkMenu == { SseMessage(<<"A">>), SseMessage(<<"R">>) }

\* chunks of an upstream Responses stream: one upstream event each
PassMenu == {"response.created", "response.output_text.delta", "response.completed"}
DispatchPassMenu == {"response.created", "response.completed"}

ErrorCodes == {"invalid_request", "upstream_transport_error", "upstream_error"}

BodyMenu ==
    { Body(FALSE, "absent", FALSE, FALSE),
      Body(TRUE, "absent", TRUE, TRUE),
      Body(TRUE, "true", TRUE, TRUE),
      Body(TRUE, "false", TRUE, TRUE),
      Body(TRUE, "other", FALSE, TRUE) }

ChatJsonHi ==
    ChatJson(<<ChatMessage(Some(JsonString(<<"H", "i">>)), <<>>)>>, Some(ChatUsage(1, 2, 3)))
ChatJsonTool ==
    ChatJson(<<ChatMessage(None, <<ChatToolCall(None, Some("f"), Some(JsonString(<<"{", "}">>)))>>)>>, None)
ResponsesJsonUp == ResponsesJson(0, <<MessageItem(<<"H", "i">>)>>, None)

\* decoded unary bodies of the upstream, by its wire; None is a body that is not JSON
UpstreamDocs(upstream_wire) ==
    IF upstream_wire = "chat" THEN {None, Some(ChatJsonHi), Some(ChatJsonTool)}
    ELSE {None, Some(ResponsesJsonUp)}

\* what the upstream does with a POST
\* bodies of a non-2xx answer: a well-formed Chat stream, or a body whose read fails
ErrorBodies == { Some(SseMessage(<<"A">>)), None }
UpstreamOutcomes ==
    { Outcome("transport_error", 0, None), Outcome("ok", 200, None) }
    \cup { Outcome("non_2xx", 500, b) : b \in ErrorBodies }

\* ------------------------------------------------------------ payload model
NoPay ==
    [pc |-> "idle", api |-> "", body |-> NoBody, wants_stream |-> FALSE,
     request |-> NoBody, payload |-> Err(""), headers |-> <<>>,
     upstream_headers |-> None, log |-> <<>>]

ToolMenu ==
    { FlatTool(Some("f"), Some("d"), Some("schema")),
      FlatTool(Some("g"), None, None),
      FlatTool(Some("h"), None, Some(JsonNull)),
      FlatTool(None, None, None),
      WrappedTool(Some("w"), Some("d"), Some("schema")),
      WrappedTool(None, None, None),
      OtherTool(Some("web_search")) }

RECURSIVE ToolLists(_)
ToolLists(n) ==
    IF n = 0 THEN { <<>> }
    ELSE ToolLists(n - 1) \cup { Append(l, t) : l \in ToolLists(n - 1), t \in ToolMenu }

\* {type:"function", name:"f"} and {type:"function", function:{name:"f"}}
FnFlat == ChoiceObject(Some(JsonString(FUNCTION)), Some(JsonString(<<"f">>)), None)
FnWrapped ==
    ChoiceObject(Some(JsonString(FUNCTION)), None,
                 Some(FunctionChoice("object", Some(JsonString(<<"f">>)))))

ToolChoiceMenu ==
    { None, Some(ChoiceString("auto")), Some(ChoiceString("required")),
      Some(ChoiceOther("null")), Some(ChoiceOther("number")), Some(ChoiceOther("array")),
      Some(FnFlat), Some(FnWrapped),
      \* {type:"function"}, {name:"f"}, {type:"tool", name:"f"}, {type:"function", name:7}
      Some(ChoiceObject(Some(JsonString(FUNCTION)), None, None)),
      Some(ChoiceObject(None, Some(JsonString(<<"f">>)), None)),
      Some(ChoiceObject(Some(JsonString(TOOL)), Some(JsonString(<<"f">>)), None)),
      Some(ChoiceObject(Some(JsonString(FUNCTION)), Some(JsonNumber(<<"7">>)), None)),
      \* {function:null}, {type:"function", name:"f", function:{}}
      Some(ChoiceObject(None, None, Some(FunctionChoice("null", None)))),
      Some(ChoiceObject(Some(JsonString(FUNCTION)), Some(JsonString(<<"f">>)),
                        Some(FunctionChoice("object", None)))) }

\* well-formed requests with every `tools` and `tool_choice`
ToolBodies ==
    { JsonBody("absent", TRUE, TRUE, tools, tool_choice) :
        tools \in {NoTools, ToolsOther} \cup { ToolsArray(l) : l \in ToolLists(MaxTools) },
        tool_choice \in ToolChoiceMenu }

\* requests with every `stream`, with and without `model` and the required array
FieldBodies ==
    { JsonBody(stream, has_model, has_array, tools, tool_choice) :
        stream \in {"true", "false", "absent", "other"},
        has_model \in BOOLEAN, has_array \in BOOLEAN,
        tools \in { NoTools, ToolsArray(<<OtherTool(Some("web_search"))>>),
                    ToolsArray(<<FlatTool(Some("f"), None, None)>>) },
        tool_choice \in { None, Some(ChoiceString("auto")) } }

\* items of an `input` array
ItemMenu ==
    { [InputItem(Some(JsonString(MESSAGE))) EXCEPT
          !.role = Some(JsonString(USER)),
          !.content = Some(JsonArray(<<ContentPart(Some(JsonString(INPUT_TEXT)),
                                                   Some(JsonString(<<"h", "i">>)))>>))],
      [InputItem(Some(JsonString(MESSAGE))) EXCEPT
          !.content = Some(JsonArray(<<ContentPart(Some(JsonString(OUTPUT_TEXT)),
                                                   Some(JsonString(<<"a">>))),
                                       ContentPart(Some(JsonString(<<"i", "m", "g">>)),
                                                   Some(JsonString(<<"x">>))),
                                       ContentPart(Some(JsonString(INPUT_TEXT)),
                                                   Some(JsonString(<<"b">>)))>>))],
      [InputItem(Some(JsonString(MESSAGE))) EXCEPT
          !.role = Some(JsonString(ASSISTANT)),
          !.content = Some(JsonArray(<<ContentPart(Some(JsonString(INPUT_TEXT)),
                                                   Some(JsonString(<<SP>>)))>>))],
      [InputItem(Some(JsonString(MESSAGE))) EXCEPT
          !.content = Some(JsonString(<<"x">>))],
      [InputItem(Some(JsonString(FUNCTION_CALL))) EXCEPT
          !.name = Some(JsonString(<<"f">>)),
          !.call_id = Some(JsonString(<<"c", "1">>)),
          !.arguments = Some(JsonString(<<"{", "a", "}">>))],
      [InputItem(Some(JsonString(FUNCTION_CALL))) EXCEPT
          !.name = Some(JsonString(<<>>)),
          !.call_id = Some(JsonString(<<"c", "2">>))],
      [InputItem(Some(JsonString(FUNCTION_CALL))) EXCEPT
          !.name = Some(JsonString(<<"g">>)),
          !.arguments = Some(JsonObject(<<"{", "b", "}">>))],
      [InputItem(Some(JsonString(FUNCTION_CALL_OUTPUT))) EXCEPT
          !.call_id = Some(JsonString(<<"c", "1">>)),
          !.output = Some(JsonString(<<"o", "k">>))],
      [InputItem(Some(JsonString(CUSTOM_TOOL_CALL_OUTPUT))) EXCEPT
          !.output = Some(JsonNumber(<<"7">>))],
      [InputItem(Some(JsonString(MCP_TOOL_CALL_OUTPUT))) EXCEPT
          !.call_id = Some(JsonString(<<"c", "3">>)),
          !.result = Some(JsonString(<<"r">>))],
      InputItem(Some(JsonString(<<"r", "e", "a", "s", "o", "n", "i", "n", "g">>))),
      InputItem(None) }

RECURSIVE ItemLists(_)
ItemLists(n) ==
    IF n = 0 THEN { <<>> }
    ELSE ItemLists(n - 1) \cup { Append(l, i) : l \in ItemLists(n - 1), i \in ItemMenu }

InstructionsMenu ==
    { None, Some(JsonString(<<"b", "e">>)), Some(JsonString(<<SP, NL>>)), Some(NullValue) }

\* well-formed requests with every `instructions` and `input`
InputBodies ==
    { [JsonBody(stream, TRUE, TRUE, NoTools, None) EXCEPT
          !.instructions = instructions, !.input = input] :
        stream \in {"absent", "false"},
        instructions \in InstructionsMenu, input \in ItemLists(MaxItems) }

\* messages of a `messages` array
ChatMessageMenu ==
    { ChatMessageJson(Some(JsonString(USER)), Some(JsonString(<<"h", "i">>)), None),
      ChatMessageJson(None, Some(JsonString(<<SP>>)), None),
      ChatMessageJson(Some(JsonString(SYSTEM)),
                      Some(JsonArray(<<ChatPart(Some(JsonString(<<"t", "e", "x", "t">>)),
                                                Some(JsonString(<<"a">>)), None),
                                       ChatPart(None, Some(JsonNumber(<<"7">>)),
                                                Some(JsonString(<<"b">>))),
                                       ChatPart(Some(JsonString(<<"i", "m", "g">>)),
                                                None, None)>>)),
                      None),
      ChatMessageJson(Some(JsonString(USER)),
                      Some(JsonArray(<<ChatPart(Some(JsonString(<<"i", "m", "g">>)),
                                                None, None)>>)),
                      None),
      ChatMessageJson(Some(JsonString(ASSISTANT)), Some(NullValue), None),
      ChatMessageJson(Some(JsonString(ASSISTANT)), None, None),
      ChatMessageJson(Some(JsonString(TOOL)), Some(JsonString(<<"o", "k">>)),
                      Some(JsonString(<<"c", "1">>))),
      ChatMessageJson(Some(JsonString(TOOL)), None, None),
      ChatMessageJson(Some(JsonString(TOOL)),
                      Some(JsonArray(<<ChatPart(Some(JsonString(OUTPUT_TEXT)),
                                                Some(JsonString(<<"x">>)), None),
                                       ChatPart(Some(JsonString(INPUT_TEXT)),
                                                Some(JsonString(<<"y">>)), None)>>)),
                      Some(JsonNumber(<<"7">>))) }

RECURSIVE ChatMessageLists(_)
ChatMessageLists(n) ==
    IF n = 0 THEN { <<>> }
    ELSE ChatMessageLists(n - 1) \cup
         { Append(l, m) : l \in ChatMessageLists(n - 1), m \in ChatMessageMenu }

\* well-formed Chat requests with every `messages`
MessageBodies ==
    { [JsonBody(stream, TRUE, TRUE, NoTools, None) EXCEPT !.messages = messages] :
        stream \in {"absent", "true"}, messages \in ChatMessageLists(MaxItems) }

\* requests that bring a `stream_options` member of their own
OptionBodies ==
    { [JsonBody(stream, TRUE, TRUE, NoTools, None) EXCEPT
          !.stream_options = Some(stream_options)] :
        stream \in {"true", "false", "absent", "other"},
        stream_options \in {IncludeUsage, "{include_usage:false}"} }

\* items that are a message of one input_text part or a function_call_output
\* of strings, and one message of two parts
RoundTripMenu ==
    { [InputItem(Some(JsonString(MESSAGE))) EXCEPT
          !.role = Some(JsonString(role)),
          !.content = Some(JsonArray(<<ContentPart(Some(JsonString(INPUT_TEXT)),
                                                   Some(JsonString(text)))>>))] :
        role \in {USER, ASSISTANT, SYSTEM}, text \in { <<"h", "i">>, <<SP, "a", NL>> } }
    \cup { [InputItem(Some(JsonString(FUNCTION_CALL_OUTPUT))) EXCEPT
               !.call_id = Some(JsonString(call_id)),
               !.output = Some(JsonString(output))] :
             call_id \in { <<"c", "1">>, <<>> }, output \in { <<"o", "k">>, <<>> } }
    \cup { [InputItem(Some(JsonString(MESSAGE))) EXCEPT
               !.role = Some(JsonString(USER)),
               !.content = Some(JsonArray(<<ContentPart(Some(JsonString(INPUT_TEXT)),
                                                        Some(JsonString(<<"a">>))),
                                            ContentPart(Some(JsonString(INPUT_TEXT)),
                                                        Some(JsonString(<<"b">>)))>>))] }

RECURSIVE RoundTripLists(_)
RoundTripLists(n) ==
    IF n = 0 THEN { <<>> }
    ELSE RoundTripLists(n - 1)
         \cup { Append(l, i) : l \in RoundTripLists(n - 1), i \in RoundTripMenu }

RoundTripBodies ==
    { [JsonBody("absent", TRUE, TRUE, NoTools, None) EXCEPT !.input = input] :
        input \in RoundTripLists(MaxItems) }

PayloadBodies ==
    ToolBodies \cup FieldBodies \cup InputBodies \cup MessageBodies \cup OptionBodies
    \cup RoundTripBodies
    \cup { NonObjectBody, NoBody }

\* the headers a caller sends: forwarded names once and twice, names that are not
\* forwarded, and headers the proxy sets itself
HeaderMenu ==
    { Header("openai-organization", <<"org">>),
      Header("x-codex-turn-state", <<"s1">>),
      Header("x-codex-turn-state", <<"s2">>),
      Header("x-codex-turn-metadata", <<"m">>),
      Header("authorization", <<"Bearer", "caller-key">>),
      Header("content-type", <<"text/plain">>),
      Header("x-request-id", <<"r">>) }

RECURSIVE HeaderMaps(_)
HeaderMaps(n) ==
    IF n = 0 THEN { <<>> }
    ELSE HeaderMaps(n - 1) \cup
         { Append(h, e) : h \in HeaderMaps(n - 1), e \in HeaderMenu }

\* the request a caller's headers are tried with
HeaderBody == JsonBody("absent", TRUE, TRUE, NoTools, None)

\* handle_incoming from the body to the upstream request, for one request
PayHandle ==
    /\ pay.pc = "idle"
    /\ LET p == PreparePayload(pay.api, pay.body, cfg.drop_tool_types, cfg.upstream_wire)
           log == IF cfg.verbose_logging
                  THEN VerboseLog(pay.body, cfg.upstream_wire, pay.headers, cfg.api_key, p)
                  ELSE <<>>
       IN  IF ~pay.body.parse_ok
           THEN pay' = [pay EXCEPT !.pc = "parse_error", !.log = log]
           ELSE pay' = [pay EXCEPT !.pc = IF p.payload.ok THEN "built" ELSE "invalid",
                                   !.wants_stream = p.wants_stream,
                                   !.request = p.request,
                                   !.payload = p.payload,
                                   !.upstream_headers =
                                       IF p.payload.ok
                                       THEN Some(UpstreamRequestHeaders(pay.headers,
                                                                        cfg.api_key))
                                       ELSE None,
                                   !.log = log]
    /\ UNCHANGED <<cfg, req, st, uuid, exitTimer, shutdownLog, par, una, conf>>

\* ------------------------------------------------------------- parser model
NoPar ==
    [text |-> <<>>, pos |-> 0, parser |-> SseParserDefault, events |-> <<>>,
     empties |-> 0, finished |-> None, done |-> FALSE]

LineMenu ==
    { <<>>, <<"d", "a", "t", "a", ":", SP, "a">>, <<"d", "a", "t", "a", ":", "b">>,
      <<"d", "a", "t">> }
Terminators == { <<NL>>, <<CR, NL>> }
TailMenu == { <<>>, <<"d", "a", "t", "a", ":", SP, "x">> }

RECURSIVE TextsOfLines(_)
TextsOfLines(n) ==
    IF n = 0 THEN { <<>> }
    ELSE TextsOfLines(n - 1) \cup
         { t \o l \o e : t \in TextsOfLines(n - 1), l \in LineMenu, e \in Terminators }

ParserTexts == { t \o tail : t \in TextsOfLines(MaxLines), tail \in TailMenu }

\* parser.feed(chunk) for the next k characters of the text
ParFeed(k) ==
    /\ ~par.done
    /\ k \in 0..(Len(par.text) - par.pos)
    /\ k = 0 => par.empties < MaxEmpty
    /\ LET r == SseFeed(par.parser, SubSeq(par.text, par.pos + 1, par.pos + k))
       IN  par' = [par EXCEPT !.pos = @ + k,
                              !.parser = ParserOf(r),
                              !.events = @ \o r.events,
                              !.empties = IF k = 0 THEN @ + 1 ELSE @]
    /\ UNCHANGED <<cfg, req, st, uuid, exitTimer, shutdownLog, pay, una, conf>>

\* parser.feed(chunk) for the next line of the text and its newline
ParFeedLine ==
    LET k == FindNewline(SubSeq(par.text, par.pos + 1, Len(par.text)))
    IN  k > 0 /\ ParFeed(k)

\* lines of an event stream: blank, data lines (one space, none, two, no text),
\* an id line and a comment
FeedLineMenu ==
    { <<>>, <<"d", "a", "t", "a", ":", SP, "a">>, <<"d", "a", "t", "a", ":", "b">>,
      <<"d", "a", "t", "a", ":", SP, SP, "c">>, <<"d", "a", "t", "a", ":">>,
      <<"i", "d", ":", "1">>, <<":", "c">> }

RECURSIVE FeedTexts(_)
FeedTexts(n) ==
    IF n = 0 THEN { <<>> }
    ELSE FeedTexts(n - 1) \cup
         { t \o l \o e : t \in FeedTexts(n - 1), l \in FeedLineMenu, e \in Terminators }

\* parser.finish() after the last chunk
ParFinish ==
    /\ ~par.done
    /\ par.pos = Len(par.text)
    /\ par' = [par EXCEPT !.finished = SseFinish(par.parser), !.done = TRUE]
    /\ UNCHANGED <<cfg, req, st, uuid, exitTimer, shutdownLog, pay, una, conf>>

\* ------------------------------------------------------------- config model
\* Args and FileConfig: the options of the command line and of the config file.
\* A scalar option is an Option; the flags of the command line are booleans and
\* its drop_tool_types a list, those of the file Options.
Config(host, port, upstream_url, upstream_wire, api_key_env, server_info) ==
    [host |-> host, port |-> port, upstream_url |-> upstream_url,
     upstream_wire |-> upstream_wire, api_key_env |-> api_key_env,
     server_info |-> server_info, http_shutdown |-> FALSE, verbose_logging |-> FALSE,
     drop_tool_types |-> <<>>]
\* Args with nothing given
NoArgs == Config(None, None, None, None, None, None)
\* FileConfig::default()
FileConfigDefault ==
    [Config(None, None, None, None, None, None) EXCEPT
        !.http_shutdown = None, !.verbose_logging = None, !.drop_tool_types = None]

\* default_upstream_url
DefaultUpstreamUrl(upstream_wire) ==
    IF upstream_wire = "chat" THEN "https://api.openai.com/v1/chat/completions"
    ELSE "https://api.openai.com/v1/responses"

\* Option::or
OptionOrPrefersSecond(a, b) == IF IsSome(b) THEN b ELSE a
OptionOr(a, b) == IF IsSome(a) THEN a ELSE b

\* resolve_config
ResolveConfig(args, file_config_option) ==
    LET file_config == UnwrapOr(file_config_option, FileConfigDefault)
        drop_tool_types ==
            SelectSeq(UnwrapOr(file_config.drop_tool_types, <<>>) \o args.drop_tool_types,
                      LAMBDA v : ~IsBlank(v))
        upstream_wire == UnwrapOr(OptionOr(args.upstream_wire, file_config.upstream_wire),
                                  "chat")
    IN  [host |-> UnwrapOr(OptionOr(args.host, file_config.host), "127.0.0.1"),
         port |-> OptionOr(args.port, file_config.port),
         upstream_url |-> UnwrapOr(OptionOr(args.upstream_url, file_config.upstream_url),
                                   DefaultUpstreamUrl(upstream_wire)),
         upstream_wire |-> upstream_wire,
         api_key_env |-> UnwrapOr(OptionOr(args.api_key_env, file_config.api_key_env),
                                  "OPENAI_API_KEY"),
         server_info |-> OptionOr(args.server_info, file_config.server_info),
         http_shutdown |-> args.http_shutdown \/ UnwrapOr(file_config.http_shutdown, FALSE),
         verbose_logging |-> args.verbose_logging
                             \/ UnwrapOr(file_config.verbose_logging, FALSE),
         drop_tool_types |-> drop_tool_types]

\* main() before resolve_config: the parsed arguments and the loaded file
Conf(args, file_config) ==
    [pc |-> "args", args |-> args, file_config |-> file_config, config |-> None]
\* a run in which resolve_config is not looked at
NoConf == [pc |-> "none"]

\* `let config = resolve_config(args, file_config);`
ConfResolve ==
    /\ conf.pc = "args"
    /\ conf' = [conf EXCEPT !.pc = "resolved",
                            !.config = Some(ResolveConfig(conf.args, conf.file_config))]
    /\ UNCHANGED <<cfg, req, st, uuid, exitTimer, shutdownLog, par, pay, una>>

\* the scalar options of a source named src
ScalarConfigs(src) ==
    { Config(host, port, upstream_url, upstream_wire, api_key_env, server_info) :
        host \in {None, Some(src \o "-host")},
        port \in {None, Some(IF src = "cli" THEN 8080 ELSE 9090)},
        upstream_url \in {None, Some(src \o "-url")},
        upstream_wire \in {None, Some("chat"), Some("responses")},
        api_key_env \in {None, Some(src \o "-env")},
        server_info \in {None, Some(src \o "-info")} }

DropMenu == { <<"a">>, <<"b">>, <<SP>> }
RECURSIVE DropLists(_)
DropLists(n) ==
    IF n = 0 THEN { <<>> }
    ELSE DropLists(n - 1) \cup { Append(l, t) : l \in DropLists(n - 1), t \in DropMenu }

\* (args, file_config) pairs: the scalar options in every combination, then the
\* flags and the lists of up to n entries in every combination
ConfInputs(n) ==
    { <<a, Some([f EXCEPT !.http_shutdown = None, !.verbose_logging = None,
                          !.drop_tool_types = None])>> :
        a \in ScalarConfigs("cli"), f \in ScalarConfigs("file") }
    \cup { <<a, None>> : a \in ScalarConfigs("cli") }
    \cup { <<[b[1] EXCEPT !.http_shutdown = h, !.verbose_logging = v,
                          !.drop_tool_types = d],
             Some([b[2] EXCEPT !.http_shutdown = fh, !.verbose_logging = fv,
                               !.drop_tool_types = fd])>> :
             b \in { <<NoArgs, FileConfigDefault>>,
                     <<Config(None, None, None, Some("responses"), None, None),
                       Config(Some("file-host"), None, None, Some("chat"), None, None)>> },
             h \in BOOLEAN, v \in BOOLEAN, d \in DropLists(n),
             fh \in {None, Some(TRUE), Some(FALSE)}, fv \in {None, Some(TRUE), Some(FALSE)},
             fd \in {None} \cup { Some(l) : l \in DropLists(n) } }

\* -------------------------------------------------------------- unary model
\* a decoded upstream body and the response id chat_json_to_responses_json is
\* called with
Una(chat, response_id) ==
    [pc |-> "idle", chat |-> chat, response_id |-> response_id, json |-> None]
\* a run in which the transcoder is not looked at on its own
NoUna == [pc |-> "none"]

\* `WireApi::Chat => chat_json_to_responses_json(upstream_json, response_id)`
UnaTranscode ==
    /\ una.pc = "idle"
    /\ LET out == ChatJsonToResponsesJson(una.chat, una.response_id, uuid)
       IN  /\ una' = [una EXCEPT !.pc = "done", !.json = Some(out.json)]
           /\ uuid' = out.uuid
    /\ UNCHANGED <<cfg, req, st, exitTimer, shutdownLog, par, pay, conf>>

\* contents of a Chat message: absent, strings, null, arrays of parts
UnaryContentMenu ==
    { None, Some(JsonString(<<"H", "i">>)), Some(JsonString(<<" ", NL>>)),
      Some(JsonString(<<>>)), Some(NullValue), Some(JsonArray(<<>>)),
      Some(JsonArray(<<ContentPart(Some(JsonString(OUTPUT_TEXT)), Some(JsonString(<<"x">>))),
                       ContentPart(Some(JsonString(OUTPUT_TEXT)), Some(JsonString(<<"y">>)))>>)),
      Some(JsonArray(<<ContentPart(Some(JsonString(<<"image">>)), Some(JsonString(<<"x">>)))>>)) }

UnaryToolCallMenu ==
    { ChatToolCall(Some("c1"), Some("f"), Some(JsonString(<<"{", "}">>))),
      ChatToolCall(None, Some("g"), Some(JsonObject(<<"{", "a", "}">>))),
      ChatToolCall(Some("c2"), None, None) }

RECURSIVE UnaryToolCallLists(_)
UnaryToolCallLists(n) ==
    IF n = 0 THEN { <<>> }
    ELSE UnaryToolCallLists(n - 1)
         \cup { Append(l, t) : l \in UnaryToolCallLists(n - 1), t \in UnaryToolCallMenu }

\* the choices after the first
LaterChoiceMenu ==
    { ChatMessage(Some(JsonString(<<"L">>)), <<>>),
      ChatMessage(None, <<ChatToolCall(Some("c9"), Some("z"), None)>>) }

RECURSIVE LaterChoices(_)
LaterChoices(n) ==
    IF n = 0 THEN { <<>> }
    ELSE LaterChoices(n - 1)
         \cup { Append(l, m) : l \in LaterChoices(n - 1), m \in LaterChoiceMenu }

UnaryChoices ==
    { <<>> } \cup { <<ChatMessage(c, tcs)>> \o later :
                       c \in UnaryContentMenu, tcs \in UnaryToolCallLists(MaxTools),
                       later \in LaterChoices(MaxChoices - 1) }

UnaryDocs == { ChatJson(choices, usage) :
                 choices \in UnaryChoices, usage \in {None, Some(ChatUsage(1, 2, 3))} }

\* ------------------------------------------------------------ specifications
InitCommon ==
    /\ req = [r \in Reqs |-> NoRequest]
    /\ st = [r \in Reqs |-> NoStream]
    /\ uuid = 0
    /\ exitTimer = "none"
    /\ shutdownLog = <<>>

\* a component looked at on its own: no request is in flight
InitNoRequest ==
    /\ req = <<>>
    /\ st = <<>>
    /\ uuid = 0
    /\ exitTimer = "none"
    /\ shutdownLog = <<>>

\* The dispatcher: concurrent requests, the upstream, GET /shutdown.
Init ==
    /\ cfg \in [upstream_wire : {"chat", "responses"}, http_shutdown : BOOLEAN,
                drop_tool_types : {{"web_search"}},
                api_key : {api_key}, verbose_logging : {FALSE}]
    /\ InitCommon
    /\ par = NoPar
    /\ pay = NoPay
    /\ una = NoUna
    /\ conf = NoConf

StreamStep(r) ==
    \/ \E c \in DispatchChunkMenu : st[r].nread < MaxChunksD /\ TranslateRead(r, c)
    \/ TranslateError(r)
    \/ TranslateEof(r)
    \/ \E c \in DispatchPassMenu : st[r].nread < MaxChunksD /\ PassthroughRead(r, c)
    \/ PassthroughError(r)
    \/ PassthroughEof(r)

Next ==
    \/ \E r \in Reqs, api \in {"responses", "chat"}, body \in BodyMenu :
           HandleIncoming(r, api, body)
    \/ \E r \in Reqs, outcome \in UpstreamOutcomes :
           UpstreamResponds(r, outcome)
    \/ \E r \in Reqs, doc \in UpstreamDocs(cfg.upstream_wire) : UpstreamBody(r, doc)
    \/ \E r \in Reqs : StreamStep(r)
    \/ Shutdown
    \/ ProcessExit

Spec == Init /\ [][Next]_vars

\* the end of the upstream body of a stream: end of stream, or a failed read
StreamEnds(r) ==
    \/ TranslateError(r)
    \/ TranslateEof(r)
    \/ PassthroughError(r)
    \/ PassthroughEof(r)

\* The upstream eventually answers, its body eventually ends or errors, and the
\* spawned exit task runs.
Fairness ==
    /\ \A r \in Reqs :
          /\ WF_vars(\E outcome \in UpstreamOutcomes :
                         UpstreamResponds(r, outcome))
          /\ WF_vars(\E doc \in UpstreamDocs(cfg.upstream_wire) : UpstreamBody(r, doc))
          /\ WF_vars(StreamEnds(r))
    /\ WF_vars(ProcessExit)

FairSpec == Spec /\ Fairness

\* The dispatcher with callers that may disconnect from a streaming response.
CancelNext ==
    \/ Next
    \/ \E r \in Reqs : CallerDisconnects(r)

SpecCancel == Init /\ [][CancelNext]_vars

\* One response stream on its own, under every upstream behaviour.
StreamReq == 1

StartTranslate ==
    /\ st[StreamReq].pc = "idle"
    /\ uuid' = uuid + 1
    /\ st' = [st EXCEPT ![StreamReq] = TranslateStart(uuid + 1)]
    /\ UNCHANGED <<cfg, req, exitTimer, shutdownLog, par, pay, una, conf>>

StartPassthrough ==
    /\ st[StreamReq].pc = "idle"
    /\ st' = [st EXCEPT ![StreamReq] = PassthroughStart]
    /\ UNCHANGED <<cfg, req, uuid, exitTimer, shutdownLog, par, pay, una, conf>>

StartSseError(code) ==
    /\ st[StreamReq].pc = "idle"
    /\ uuid' = uuid + 1
    /\ st' = [st EXCEPT ![StreamReq] = SseErrorBody(uuid + 1, code, Message(code, 0, <<>>))]
    /\ UNCHANGED <<cfg, req, exitTimer, shutdownLog, par, pay, una, conf>>

StreamInit ==
    /\ cfg = [upstream_wire |-> "chat", http_shutdown |-> FALSE, drop_tool_types |-> {},
              api_key |-> api_key, verbose_logging |-> FALSE]
    /\ InitCommon
    /\ par = NoPar
    /\ pay = NoPay
    /\ una = NoUna
    /\ conf = NoConf

StreamNext ==
    \/ StartTranslate
    \/ StartPassthrough
    \/ \E code \in ErrorCodes : StartSseError(code)
    \/ \E c \in ChunkMenu : st[StreamReq].nread < MaxChunks /\ TranslateRead(StreamReq, c)
    \/ TranslateError(StreamReq)
    \/ TranslateEof(StreamReq)
    \/ \E c \in PassMenu : st[StreamReq].nread < MaxChunks /\ PassthroughRead(StreamReq, c)
    \/ PassthroughError(StreamReq)
    \/ PassthroughEof(StreamReq)

SpecStream == StreamInit /\ [][StreamNext]_vars

\* The dispatcher with one request and, beside the bodies of BodyMenu, a body
\* that parses and is not an object.
FramingNext ==
    \/ \E api \in {"responses", "chat"}, body \in BodyMenu \cup {NonObjectBody} :
           HandleIncoming(StreamReq, api, body)
    \/ \E outcome \in UpstreamOutcomes : UpstreamResponds(StreamReq, outcome)
    \/ \E doc \in UpstreamDocs(cfg.upstream_wire) : UpstreamBody(StreamReq, doc)
    \/ StreamStep(StreamReq)

SpecFraming == Init /\ [][FramingNext]_vars

\* The parser on its own: a text fed in chunks of every size.
ParserInit ==
    /\ cfg = [upstream_wire |-> "chat", http_shutdown |-> FALSE, drop_tool_types |-> {},
              api_key |-> api_key, verbose_logging |-> FALSE]
    /\ InitNoRequest
    /\ par \in { [NoPar EXCEPT !.text = t] : t \in ParserTexts }
    /\ pay = NoPay
    /\ una = NoUna
    /\ conf = NoConf

ParserNext ==
    \/ \E k \in 0..(MaxLines * 8 + 8) : ParFeed(k)
    \/ ParFinish

SpecParser == ParserInit /\ [][ParserNext]_vars

\* The request path with its log: both settings of verbose_logging, two keys.
ApiKeys == { api_key, "other-key" }

LogHeaderMenu ==
    { Header("openai-organization", <<"org">>),
      Header("x-codex-turn-state", <<"é">>),
      Header("authorization", <<"Bearer", "caller-key">>) }

RECURSIVE LogHeaderMaps(_)
LogHeaderMaps(n) ==
    IF n = 0 THEN { <<>> }
    ELSE LogHeaderMaps(n - 1) \cup
         { Append(h, e) : h \in LogHeaderMaps(n - 1), e \in LogHeaderMenu }

LogBodies == { HeaderBody, NoBody, NonObjectBody, Body(TRUE, "true", FALSE, TRUE) }
              \cup { b \in MessageBodies : Len(b.messages) = 1 }

LogInit ==
    /\ cfg \in [upstream_wire : {"chat", "responses"}, http_shutdown : {FALSE},
                drop_tool_types : {{}}, api_key : ApiKeys, verbose_logging : BOOLEAN]
    /\ InitCommon
    /\ par = NoPar
    /\ pay \in { [NoPay EXCEPT !.api = api, !.body = body, !.headers = h] :
                    api \in {"responses", "chat"}, body \in LogBodies,
                    h \in LogHeaderMaps(MaxHeaders) }
    /\ una = NoUna
    /\ conf = NoConf

SpecLog == LogInit /\ [][PayHandle]_vars

\* resolve_config on its own: every pair of ConfInputs(MaxDrops).
ConfInit ==
    /\ cfg = [upstream_wire |-> "chat", http_shutdown |-> FALSE, drop_tool_types |-> {},
              api_key |-> api_key, verbose_logging |-> FALSE]
    /\ InitCommon
    /\ par = NoPar
    /\ pay = NoPay
    /\ una = NoUna
    /\ conf \in { Conf(i[1], i[2]) : i \in ConfInputs(MaxDrops) }

SpecConf == ConfInit /\ [][ConfResolve]_vars

\* The parser fed line by line: every text of up to MaxFeedLines lines.
LinesInit ==
    /\ cfg = [upstream_wire |-> "chat", http_shutdown |-> FALSE, drop_tool_types |-> {},
              api_key |-> api_key, verbose_logging |-> FALSE]
    /\ InitNoRequest
    /\ par \in { [NoPar EXCEPT !.text = t] : t \in FeedTexts(MaxFeedLines) }
    /\ pay = NoPay
    /\ una = NoUna
    /\ conf = NoConf

LinesNext ==
    \/ ParFeedLine
    \/ ParFinish

SpecLines == LinesInit /\ [][LinesNext]_vars

\* The request path on its own: every body, schema, upstream wire and drop-set.
PayloadInit ==
    /\ cfg \in [upstream_wire : {"chat", "responses"}, http_shutdown : {FALSE},
                drop_tool_types : {{}, {"web_search"}},
                api_key : {api_key}, verbose_logging : {FALSE}]
    /\ InitCommon
    /\ par = NoPar
    /\ pay \in { [NoPay EXCEPT !.api = api, !.body = body] :
                    api \in {"responses", "chat"}, body \in PayloadBodies }
             \cup { [NoPay EXCEPT !.api = api, !.body = HeaderBody, !.headers = h] :
                       api \in {"responses", "chat"}, h \in HeaderMaps(MaxHeaders) }
    /\ una = NoUna
    /\ conf = NoConf

PayloadNext == PayHandle

SpecPayload == PayloadInit /\ [][PayloadNext]_vars

\* The unary transcoder on its own: every document of UnaryDocs.
UnaryInit ==
    /\ cfg = [upstream_wire |-> "chat", http_shutdown |-> FALSE, drop_tool_types |-> {},
              api_key |-> api_key, verbose_logging |-> FALSE]
    /\ InitCommon
    /\ par = NoPar
    /\ pay = NoPay
    /\ una \in { Una(doc, id) : doc \in UnaryDocs, id \in Reqs }
    /\ conf = NoConf

UnaryNext == UnaTranscode

SpecUnary == UnaryInit /\ [][UnaryNext]_vars


\* ------------------------------------------------------- event-sequence terms
IsCreated(e) == e.type = "response.created"
IsAdded(e) == e.type = "response.output_item.added"
IsDelta(e) == e.type = "response.output_text.delta"
IsMessageDone(e) == e.type = "response.output_item.done" /\ e.item = "message"
IsFunctionCallDone(e) == e.type = "response.output_item.done" /\ e.item = "function_call"
IsTerminal(e) == e.type \in {"response.completed", "response.failed"}

Positions(out, P(_)) == { i \in 1..Len(out) : P(out[i]) }
Count(out, P(_)) == Cardinality(Positions(out, P))

\* begins with exactly one response.created, ends with exactly one terminal event
EnvelopeLaw(out) ==
    /\ Len(out) >= 2
    /\ Positions(out, IsCreated) = {1}
    /\ Positions(out, IsTerminal) = {Len(out)}

Translating(r) == st[r].kind = "translate"
Finished(r) == st[r].pc = "done"

UnarySuccess(r) ==
    /\ req[r].pc = "done"
    /\ req[r].framing = "json"
    /\ IsSome(req[r].upstream_json)

C2_Claim ==
    \A r \in Reqs :
        UnarySuccess(r) =>
            /\ req[r].status = 200
            /\ (Unwrap(req[r].json.doc) # Unwrap(req[r].upstream_json))
                   <=> (cfg.upstream_wire # req[r].api)

\* ---------------------------------------------------------------------- C3
\* exactly one output_item.added, before the first delta
AddedBeforeDeltas(out) ==
    Count(out, IsDelta) >= 1 =>
        /\ Count(out, IsAdded) = 1
        /\ \A a \in Positions(out, IsAdded), d \in Positions(out, IsDelta) : a < d

\* exactly one message output_item.done, after the last delta
MessageDoneAfterDeltas(out) ==
    Count(out, IsDelta) >= 1 =>
        /\ Count(out, IsMessageDone) = 1
        /\ \A m \in Positions(out, IsMessageDone), d \in Positions(out, IsDelta) : d < m

\* C3 as claimed: in every finished translated stream, ended normally or by a read
\* error, deltas come with exactly one output_item.added before the first of them
\* and exactly one message output_item.done after the last.
C3_Original ==
    \A r \in Reqs :
        Translating(r) /\ Finished(r) =>
            AddedBeforeDeltas(st[r].out) /\ MessageDoneAfterDeltas(st[r].out)

\* C3 (amended): in every translated stream, if a delta is emitted then exactly one
\* output_item.added is emitted and it precedes the first delta; if the upstream
\* ends without a read error, exactly one message output_item.done is emitted and
\* it follows the last delta; after a read error no message output_item.done is
\* emitted.
C3_ItemLifecycle ==
    \A r \in Reqs :
        Translating(r) =>
            /\ AddedBeforeDeltas(st[r].out)
            /\ Finished(r) /\ st[r].ended = "eof" => MessageDoneAfterDeltas(st[r].out)
            /\ st[r].ended # "eof" => Count(st[r].out, IsMessageDone) = 0

C3_Witness ==
    /\ Translating(StreamReq) /\ Finished(StreamReq)
    /\ st[StreamReq].ended = "eof"
    /\ Count(st[StreamReq].out, IsDelta) >= 2
    /\ st[StreamReq].nread >= 2


\* ---------------------------------------------------------------------- C4
\* the place of an event in the order created, added, delta, message done,
\* function_call done, terminal
Phase(e) ==
    IF IsCreated(e) THEN 0
    ELSE IF IsAdded(e) THEN 1
    ELSE IF IsDelta(e) THEN 2
    ELSE IF IsMessageDone(e) THEN 3
    ELSE IF IsFunctionCallDone(e) THEN 4
    ELSE 5

InPhaseOrder(out) ==
    /\ \A i, j \in 1..Len(out) : i < j => Phase(out[i]) <= Phase(out[j])
    /\ EnvelopeLaw(out)
    /\ Count(out, IsAdded) <= 1
    /\ Count(out, IsMessageDone) <= 1

\* the i-th smallest key of a map
KeyAt(m, i) == CHOOSE k \in DOMAIN m : Cardinality({ j \in DOMAIN m : j < k }) = i - 1

FunctionCallDones(out) == SelectSeq(out, IsFunctionCallDone)

\* one function_call item per accumulated index, in ascending index order
OneItemPerIndexAscending(s) ==
    LET items == FunctionCallDones(s.out) IN
    /\ Len(items) = Cardinality(DOMAIN s.acc.tool_calls)
    /\ \A i \in 1..Len(items) :
          LET k == KeyAt(s.acc.tool_calls, i)
              entry == s.acc.tool_calls[k]
          IN  /\ items[i].arguments = entry.arguments
              /\ items[i].name = (IF IsSome(entry.name) THEN Unwrap(entry.name)
                                  ELSE "unknown_function")
              /\ IF IsSome(entry.id) THEN items[i].call_id.id = Unwrap(entry.id)
                 ELSE items[i].call_id.id = "" /\ items[i].call_id.index = k

\* C4 as claimed: every finished translated stream is created, at most one added,
\* deltas, at most one message done, one function_call done per accumulated
\* tool-call index in ascending order, one terminal event.
C4_Original ==
    \A r \in Reqs :
        Translating(r) /\ Finished(r) =>
            InPhaseOrder(st[r].out) /\ OneItemPerIndexAscending(st[r])

\* C4 (amended): every finished translated stream is created, at most one added,
\* deltas, at most one message done, function_call dones, one terminal event, in
\* this order, for every arrival order of text deltas and tool-call fragments; when
\* the upstream ends without a read error there is one function_call done per
\* accumulated tool-call index, in ascending index order, and after a read error
\* there is none.
C4_EventOrder ==
    \A r \in Reqs :
        Translating(r) /\ Finished(r) =>
            /\ InPhaseOrder(st[r].out)
            /\ st[r].ended = "eof" => OneItemPerIndexAscending(st[r])
            /\ st[r].ended = "error" => FunctionCallDones(st[r].out) = <<>>

\* tool-call fragments for two indices arrived, the higher index first, then text
C4_Witness ==
    /\ Translating(StreamReq) /\ Finished(StreamReq)
    /\ st[StreamReq].ended = "eof"
    /\ Len(FunctionCallDones(st[StreamReq].out)) >= 2
    /\ Count(st[StreamReq].out, IsMessageDone) = 1
    /\ HasPrefix(st[StreamReq].input, SseMessage(<<"P">>))

\* ---------------------------------------------------------------------- C5
\* the concatenation of the delta fields of the deltas before position n
RECURSIVE DeltaTextBefore(_, _)
DeltaTextBefore(out, n) ==
    IF n <= 1 THEN <<>>
    ELSE DeltaTextBefore(out, n - 1)
             \o (IF IsDelta(out[n - 1]) THEN out[n - 1].text ELSE <<>>)

\* C5: the text of a message output_item.done equals the concatenation, in emission
\* order, of the delta fields of all output_text.delta events emitted before it.
C5_MessageTextIsDeltas ==
    \A r \in Reqs :
        Translating(r) =>
            \A i \in Positions(st[r].out, IsMessageDone) :
                st[r].out[i].text = DeltaTextBefore(st[r].out, i)

\* deltas of several chunks and of two choices of one chunk
C5_Witness ==
    /\ Translating(StreamReq)
    /\ Count(st[StreamReq].out, IsMessageDone) = 1
    /\ Count(st[StreamReq].out, IsDelta) >= 3
    /\ \E i \in 1..Len(st[StreamReq].out) :
           IsDelta(st[StreamReq].out[i]) /\ st[StreamReq].out[i].text = <<"y">>

\* ---------------------------------------------------------------------- C6
\* C6: when the upstream ends without a read error, the translator emits the
\* message item for all accumulated text (none when there is no text), one
\* function_call item per accumulated tool call, and response.completed last; it
\* emits no response.failed; this is so with or without [DONE] and with or without
\* a pending data line.
C6_GracefulEnd ==
    \A r \in Reqs :
        Translating(r) /\ st[r].ended = "eof" =>
            LET s == st[r] IN
            /\ s.pc = "done"
            /\ s.out[Len(s.out)].type = "response.completed"
            /\ \A i \in 1..Len(s.out) : s.out[i].type # "response.failed"
            /\ Count(s.out, IsMessageDone) = (IF s.acc.assistant_text = <<>> THEN 0 ELSE 1)
            /\ \A i \in Positions(s.out, IsMessageDone) : s.out[i].text = s.acc.assistant_text
            /\ Len(FunctionCallDones(s.out)) = Cardinality(DOMAIN s.acc.tool_calls)

\* ended with a data line pending, after text and a tool call
C6_Witness ==
    /\ Translating(StreamReq)
    /\ st[StreamReq].ended = "eof"
    /\ st[StreamReq].parser.current_data_lines # <<>>
    /\ st[StreamReq].acc.assistant_text # <<>>
    /\ DOMAIN st[StreamReq].acc.tool_calls # {}

\* ---------------------------------------------------------------------- C7
IsSkipped(data) == data = DONE \/ ~IsSome(DecodeChatChunk(data))
IsProcessed(data) == ~IsSkipped(data)

\* C7: a [DONE] payload or an undecodable payload is a no-op: the text buffer, the
\* tool-call map, the usage, the item-announced flag and the events are what they
\* would be had the upstream never sent the skipped payloads, and the stream is
\* not terminated by them.
C7_SkippedPayloadsAreNoOps ==
    \A r \in Reqs :
        Translating(r) =>
            LET s == st[r]
                payloads == FeedLoop(s.input, <<>>, <<>>).events
                ref == ApplyPayloads(TranslateStart(s.rid), SelectSeq(payloads, IsProcessed))
            IN  /\ s.acc = ref.acc
                /\ s.assistant_item_added = ref.assistant_item_added
                /\ s.pc = "loop" => s.out = ref.out
                /\ s.skipped = Len(SelectSeq(payloads, IsSkipped))
                /\ s.ended = "" => s.pc = "loop"

\* a chunk with an undecodable payload and [DONE] before later payloads, and a
\* later chunk
C7_Witness ==
    /\ Translating(StreamReq)
    /\ st[StreamReq].pc = "loop"
    /\ st[StreamReq].skipped >= 3
    /\ 0 \in DOMAIN st[StreamReq].acc.tool_calls
    /\ Len(st[StreamReq].acc.assistant_text) >= 2

\* ---------------------------------------------------------------------- C8
\* C8: after a failed read the stream is finished and its last event is its only
\* response.failed, carrying the request's response id and upstream_stream_error;
\* no output_item.done and no response.completed is emitted.
C8_ReadErrorTerminates ==
    \A r \in Reqs :
        Translating(r) /\ st[r].ended = "error" =>
            LET s == st[r] IN
            /\ s.pc = "done"
            /\ s.out[Len(s.out)] = FailedEvent(s.rid, "upstream_stream_error", ReadErrorMessage)
            /\ s.rid # 0
            /\ Positions(s.out, IsTerminal) = {Len(s.out)}
            /\ \A i \in 1..Len(s.out) : s.out[i].type # "response.output_item.done"

\* a read error after text and tool-call fragments were accumulated
C8_Witness ==
    /\ Translating(StreamReq)
    /\ st[StreamReq].ended = "error"
    /\ st[StreamReq].acc.assistant_text # <<>>
    /\ DOMAIN st[StreamReq].acc.tool_calls # {}


\* ---------------------------------------------------------------------- C9
Accepted(r) == req[r].pc # "idle"

\* the caller holds a single JSON document
JsonComplete(r) ==
    /\ req[r].pc = "done"
    /\ req[r].framing = "json"
    /\ req[r].json # NoJson

\* the caller holds an SSE stream that has ended with a terminal event
SseComplete(r) ==
    /\ req[r].framing = "sse"
    /\ st[r].pc = "done"
    /\ Len(st[r].out) >= 1
    /\ IsTerminal(st[r].out[Len(st[r].out)])

\* the caller holds the upstream's Responses stream up to the end of its body
PassthroughEnded(r) ==
    /\ req[r].framing = "sse"
    /\ st[r].kind = "passthrough"
    /\ st[r].pc = "done"

\* C9 as claimed: every accepted request eventually holds a single JSON document
\* or an SSE stream ended by response.completed or response.failed, whatever other
\* requests and GET /shutdown do.
C9_Original ==
    \A r \in Reqs : Accepted(r) ~> (JsonComplete(r) \/ SseComplete(r))

\* C9 (amended): every accepted request eventually holds a single JSON document,
\* or an SSE stream ended by response.completed or response.failed, or, when the
\* stream is the passthrough of a Responses upstream, the upstream's chunks up to
\* the end of the upstream body, unless the process has exited after a GET
\* /shutdown with http_shutdown enabled; this for every interleaving with another
\* request in flight and for both upstream wires.
C9_EventuallyAnswered ==
    \A r \in Reqs :
        Accepted(r) ~> (\/ JsonComplete(r)
                        \/ SseComplete(r)
                        \/ PassthroughEnded(r)
                        \/ exitTimer = "exited")

\* one request answered by a translated stream while the other is in flight and
\* GET /shutdown was refused
C9_Witness ==
    /\ shutdownLog = <<404>>
    /\ SseComplete(1) /\ st[1].kind = "translate" /\ st[1].nread >= 1
    /\ req[2].pc = "sent"

\* --------------------------------------------------------------------- C10
\* feed(b) on a fresh parser, for b the text fed so far
SingleFeed(b) == FeedLoop(b, <<>>, <<>>)

\* C10: the events returned by the feeds of the chunks of a text, concatenated,
\* are the events of a single feed of the text, the parser is left as the single
\* feed leaves it, and finish() returns the same value.
C10_Concatenative ==
    LET b == SubSeq(par.text, 1, par.pos)
        one == SingleFeed(b)
    IN  /\ par.events = one.events
        /\ par.parser = ParserOf(one)
        /\ par.done => par.finished = SseFinish(ParserOf(one))

\* the text was split between a carriage return and its newline, inside a data
\* line that follows a returned event, and an empty chunk was fed
C10_Witness ==
    /\ par.pos >= 1 /\ par.pos < Len(par.text)
    /\ par.text[par.pos] = CR /\ par.text[par.pos + 1] = NL
    /\ Len(par.events) >= 1
    /\ HasPrefix(par.parser.buffer, DATA_PREFIX)
    /\ par.empties = 1


\* ------------------------------------------------------------------------ C11
\* the stream after the same bytes arrive as one chunk
WholeStream(s) == TranslateChunk(TranslateStart(s.rid), s.bytes)

\* C11: however the upstream bytes are split into chunks, also inside a UTF-8 code
\* point, the payloads translate_chat_stream has obtained and the events it has
\* emitted are those it obtains and emits when the bytes arrive as one chunk.
C11_Claim ==
    \A r \in Reqs :
        (st[r].kind = "translate" /\ st[r].pc = "loop" /\ st[r].nread > 0) =>
            LET w == WholeStream(st[r])
            IN  /\ st[r].out = w.out
                /\ st[r].acc = w.acc
                /\ st[r].skipped = w.skipped


\* ------------------------------------------------------------------------ C12
Handled == pay.pc \in {"built", "invalid"}

\* C12: the mode chosen for a request is its `stream` member when that is a JSON
\* boolean, and otherwise the default of its schema (true for Responses, false for
\* Chat), whatever the upstream wire, the drop-set and the tools are.
C12_StreamMode ==
    Handled =>
        /\ pay.body.stream = "true" => pay.wants_stream
        /\ pay.body.stream = "false" => ~pay.wants_stream
        /\ pay.body.stream \in {"absent", "other"} =>
               (pay.wants_stream <=> pay.api = "responses")

\* a Chat request with a non-boolean `stream`, a Responses upstream, and a tool
\* that filtering removed: the mode is the Chat default
C12_Witness ==
    /\ Handled
    /\ pay.api = "chat" /\ cfg.upstream_wire = "responses"
    /\ pay.body.stream = "other"
    /\ pay.request # pay.body
    /\ ~pay.wants_stream

\* ------------------------------------------------------------------------ C13
\* C13: every payload build_upstream_payload returns has a `stream` member equal
\* to the mode the dispatcher chose.
C13_Claim ==
    pay.pc = "built" => pay.payload.value.stream = StreamMember(pay.wants_stream)

\* ------------------------------------------------------------------------ C14
\* C14: in every upstream payload `tools` is absent exactly when `tool_choice` is
\* absent.
C14_Claim ==
    pay.pc = "built" =>
        (pay.payload.value.tools.kind = "absent" <=> ~IsSome(pay.payload.value.tool_choice))

\* ------------------------------------------------------------------------ C15
\* {type:"function", function:{name, description, parameters}}, parameters not null
WrappedShape(t) ==
    /\ IsSome(t.function)
    /\ LET f == Unwrap(t.function)
       IN  /\ IsSome(f.name) /\ IsSome(f.description)
           /\ IsSome(f.parameters) /\ f.parameters # Some(JsonNull)

\* C15: every function tool of a Chat-bound payload has the wrapped shape with
\* parameters that are not null, and no function tool of a Responses-bound payload
\* has a `function` member.
C15_Claim ==
    (pay.pc = "built" /\ pay.payload.value.tools.kind = "array") =>
        \A i \in 1..Len(pay.payload.value.tools.items) :
            LET t == pay.payload.value.tools.items[i]
            IN  t.type = Some("function") =>
                    IF cfg.upstream_wire = "chat" THEN WrappedShape(t)
                    ELSE ~IsSome(t.function)

\* ------------------------------------------------------------------------ C16
\* the positions of the tools whose type is not in the drop-set
KeptPositions(items, drop_tool_types) ==
    { i \in 1..Len(items) :
        ~(IsSome(items[i].type) /\ Unwrap(items[i].type) \in drop_tool_types) }

\* C16: when `tools` is an array, filtering removes exactly the tools whose type
\* is in the drop-set and keeps the others in their order; it removes `tools` and
\* `tool_choice` when none remains; every other member is unchanged; a request
\* whose `tools` is absent or not an array is unchanged.
C16_Filtering ==
    Handled =>
        LET b == pay.body
            f == pay.request
            keep == SortedKeys(KeptPositions(b.tools.items, cfg.drop_tool_types))
        IN  IF b.is_object /\ b.tools.kind = "array"
            THEN /\ IF Len(keep) = 0
                    THEN f.tools.kind = "absent" /\ f.tool_choice = None
                    ELSE /\ f.tools.kind = "array"
                         /\ Len(f.tools.items) = Len(keep)
                         /\ \A j \in 1..Len(keep) : f.tools.items[j] = b.tools.items[keep[j]]
                         /\ f.tool_choice = b.tool_choice
                 /\ f.parse_ok = b.parse_ok /\ f.is_object = b.is_object
                 /\ f.stream = b.stream /\ f.has_model = b.has_model
                 /\ f.has_array = b.has_array
            ELSE f = b

\* a web_search tool dropped from between two others, which stay in their order
\* with the tool_choice
C16_Witness ==
    /\ Handled
    /\ cfg.drop_tool_types = {"web_search"}
    /\ pay.body.tools.kind = "array" /\ Len(pay.body.tools.items) = 2
    /\ pay.body.tools.items[1].type = Some("web_search")
    /\ pay.body.tool_choice = Some(FnFlat)
    /\ pay.request.tools.kind = "array" /\ Len(pay.request.tools.items) = 1
    /\ pay.request.tools.items[1] = pay.body.tools.items[2]


\* ------------------------------------------------------------------------ C17
\* the response of request r is the error `code` in the framing of `mode`: SSE with
\* response.created and then response.failed, or a JSON {error:{type,message}}
FramedError(r, mode, code) ==
    IF mode
    THEN /\ req[r].framing = "sse"
         /\ Len(st[r].out) = 2
         /\ IsCreated(st[r].out[1])
         /\ st[r].out[2].type = "response.failed" /\ st[r].out[2].code = code
         /\ req[r].json = NoJson
    ELSE /\ req[r].framing = "json"
         /\ req[r].json.error = code /\ req[r].json.doc = None
         /\ st[r] = NoStream

LacksRequired(r) ==
    /\ req[r].pc # "idle"
    /\ req[r].body.parse_ok
    /\ ~req[r].body.has_model \/ ~req[r].body.has_array

\* C17: a parsed body without a string `model`, or without the array its schema
\* requires, is answered with invalid_request and no POST is issued for it, for
\* every incoming schema and upstream wire.
C17_Claim ==
    \A r \in Reqs :
        LacksRequired(r) =>
            /\ req[r].pc = "done"
            /\ req[r].posts = 0
            /\ FramedError(r, req[r].wants_stream, "invalid_request")

\* ------------------------------------------------------------------------ C18
\* C18: every error of the dispatcher is framed in the caller's mode: a body that
\* does not parse in the default mode of its schema; invalid_request after
\* parsing, upstream_transport_error and upstream_error in the chosen mode;
\* upstream_decode_error only in unary mode, as JSON.
C18_ErrorFraming ==
    \A r \in Reqs :
        /\ (req[r].pc = "done" /\ ~req[r].body.parse_ok) =>
               FramedError(r, req[r].api = "responses", "invalid_request")
        /\ (req[r].pc = "done" /\ req[r].body.parse_ok /\ req[r].posts = 0) =>
               FramedError(r, req[r].wants_stream, "invalid_request")
        /\ req[r].outcome.kind = "transport_error" =>
               FramedError(r, req[r].wants_stream, "upstream_transport_error")
        /\ req[r].outcome.kind = "non_2xx" =>
               FramedError(r, req[r].wants_stream, "upstream_error")
        /\ (req[r].pc = "done" /\ req[r].outcome.kind = "ok" /\ ~req[r].wants_stream
              /\ req[r].upstream_json = None) =>
               FramedError(r, FALSE, "upstream_decode_error")
        /\ (req[r].json.error = "upstream_decode_error"
              \/ \E i \in 1..Len(st[r].out) : st[r].out[i].code = "upstream_decode_error") =>
               (~req[r].wants_stream /\ req[r].framing = "json")

\* a Chat body that does not parse answered as JSON, beside a streaming request
\* whose upstream returned a non-2xx status answered as SSE
C18_Witness ==
    \E r, q \in Reqs :
        /\ req[r].pc = "done" /\ req[r].api = "chat" /\ ~req[r].body.parse_ok
        /\ req[r].framing = "json"
        /\ req[q].pc = "done" /\ req[q].wants_stream /\ req[q].outcome.kind = "non_2xx"
        /\ req[q].framing = "sse"

\* ------------------------------------------------------------------------ C19
Responded(r) == req[r].pc \in {"streaming", "done"}

\* C19: every response of handle_incoming has HTTP status 200, the error
\* responses included.
C19_Status200 ==
    \A r \in Reqs : Responded(r) => req[r].status = 200

\* an undecodable upstream body answered as a JSON error, beside the SSE error of
\* a Responses body that does not parse
C19_Witness ==
    \E r, q \in Reqs :
        /\ req[r].pc = "done" /\ req[r].json.error = "upstream_decode_error"
        /\ req[r].status = 200
        /\ req[q].pc = "done" /\ ~req[q].body.parse_ok /\ req[q].framing = "sse"
        /\ req[q].status = 200

\* ------------------------------------------------------------------------ C20
\* the error message the caller of request r receives
ErrorMessageOf(r) ==
    IF req[r].framing = "sse" THEN st[r].out[Len(st[r].out)].message
    ELSE req[r].json.message

\* C20 as stated: after a non-2xx answer the caller receives only upstream_error,
\* with the upstream status and the raw upstream body in its message.
C20_Original ==
    \A r \in Reqs :
        req[r].outcome.kind = "non_2xx" =>
            /\ FramedError(r, req[r].wants_stream, "upstream_error")
            /\ ErrorMessageOf(r).status = req[r].outcome.status
            /\ Some(ErrorMessageOf(r).body) = req[r].outcome.body

\* C20: after a non-2xx answer the caller receives only upstream_error - SSE
\* response.created directly followed by response.failed, or the JSON error - and
\* its message has the upstream status and the raw upstream body, or
\* "<failed to read error body>" in place of a body that could not be read; nothing
\* of the body becomes an item, a delta or response.completed.
C20_UpstreamError ==
    \A r \in Reqs :
        req[r].outcome.kind = "non_2xx" =>
            /\ req[r].pc = "done"
            /\ FramedError(r, req[r].wants_stream, "upstream_error")
            /\ ErrorMessageOf(r).status = req[r].outcome.status
            /\ IsSome(req[r].outcome.body) =>
                   ErrorMessageOf(r).body = Unwrap(req[r].outcome.body)
            /\ ~IsSome(req[r].outcome.body) =>
                   ErrorMessageOf(r).body = FailedToReadErrorBody
            /\ \A i \in 1..Len(st[r].out) :
                   ~(IsAdded(st[r].out[i]) \/ IsDelta(st[r].out[i])
                       \/ st[r].out[i].type \in {"response.output_item.done",
                                                 "response.completed"})

\* a streaming caller of a Chat upstream whose 500 answer has a body that is a
\* well-formed Chat stream: the body is in the message and nothing is translated
C20_Witness ==
    \E r \in Reqs :
        /\ cfg.upstream_wire = "chat"
        /\ req[r].wants_stream
        /\ req[r].outcome = Outcome("non_2xx", 500, Some(SseMessage(<<"A">>)))
        /\ Len(st[r].out) = 2
        /\ st[r].out[2].message.body = SseMessage(<<"A">>)


\* ------------------------------------------------------------------------ C21
\* the upstream request has been built for the request at hand
Posted == pay.pc = "built" /\ IsSome(pay.upstream_headers)

ForwardedNames == { FORWARDED_UPSTREAM_HEADERS[i] : i \in 1..Len(FORWARDED_UPSTREAM_HEADERS) }

\* C21: the upstream request carries, of the caller's headers, exactly the ones
\* of the fixed forwarded set that the caller sent, with the values the caller
\* sent; no other header of the caller reaches the upstream; Authorization is
\* `Bearer <configured key>` and Content-Type is application/json.
C21_Claim ==
    Posted =>
        LET up == Unwrap(pay.upstream_headers)
        IN  /\ \A n \in ForwardedNames : HeaderValues(up, n) = HeaderValues(pay.headers, n)
            /\ \A i \in 1..Len(up) :
                   up[i].name \in ForwardedNames \cup {"authorization", "content-type"}
            /\ HeaderValues(up, "authorization") = << <<"Bearer", api_key>> >>
            /\ HeaderValues(up, "content-type") = << <<"application/json">> >>

\* ------------------------------------------------------------------------ C22
\* request r was answered by the proxy with the error `code`
AnsweredWith(r, code) ==
    /\ req[r].pc = "done"
    /\ \/ req[r].json.error = code
       \/ /\ req[r].framing = "sse"
          /\ \E i \in 1..Len(st[r].out) :
                 st[r].out[i].type = "response.failed" /\ st[r].out[i].code = code

\* C22: the proxy issues at most one upstream POST for a request, whatever the
\* outcome is (transport failure, non-2xx status, read error in the stream,
\* decode error, success), and none when the body does not parse or the request
\* is rejected as invalid.
C22_AtMostOnePost ==
    \A r \in Reqs :
        /\ req[r].posts <= 1
        /\ (req[r].pc # "idle" /\ ~req[r].body.parse_ok) => req[r].posts = 0
        /\ AnsweredWith(r, "invalid_request") => req[r].posts = 0

\* one request ended by a read error in its stream after its single POST, beside a
\* request rejected as invalid without a POST
C22_Witness ==
    \E r, q \in Reqs :
        /\ req[r].posts = 1 /\ st[r].ended = "error"
        /\ \E i \in 1..Len(st[r].out) : st[r].out[i].code = "upstream_stream_error"
        /\ req[q].body.parse_ok /\ AnsweredWith(q, "invalid_request") /\ req[q].posts = 0

\* ------------------------------------------------------------------------ C23
\* the stream of a request that reads the given chunks with nothing beside it
RECURSIVE ReplayChunks(_, _)
ReplayChunks(s, chunks) ==
    IF chunks = <<>> THEN s
    ELSE ReplayChunks(IF s.kind = "translate" THEN TranslateChunk(s, Head(chunks))
                      ELSE PassthroughChunk(s, Head(chunks)),
                      Tail(chunks))

\* the stream record of a request running alone that has the response id of s, has
\* read the chunks s has read and has ended as s has ended, its uuids drawn after u
Alone(s, u) ==
    LET start == IF s.kind = "translate" THEN TranslateStart(s.rid) ELSE PassthroughStart
        read == ReplayChunks(start, s.chunks)
    IN  IF s.ended = "" THEN read
        ELSE IF s.ended = "error"
        THEN (IF s.kind = "translate" THEN TranslateReadError(read)
              ELSE PassthroughReadError(read))
        ELSE IF s.kind = "translate" THEN TranslateEnd(read, u).stream
        ELSE PassthroughEnd(read)

\* the identifiers drawn for a stream: its response id and its synthesized call ids
IdsOf(s) ==
    ({ s.rid } \cup { s.out[i].rid : i \in 1..Len(s.out) }
               \cup { s.out[i].call_id.uuid : i \in 1..Len(s.out) }) \ {0}

\* C23: with two requests handled concurrently, under every interleaving of their
\* upstream chunks, the events of each stream are the events the request produces
\* alone from its own chunks, and no response id or synthesized call id of one
\* request occurs in the events of the other.
C23_Isolation ==
    \A r \in Reqs :
        /\ st[r].kind \in {"translate", "passthrough"} =>
               \E u \in 0..uuid : st[r] = Alone(st[r], u)
        /\ \A q \in Reqs \ {r} : IdsOf(st[r]) \cap IdsOf(st[q]) = {}

\* two translated streams that have read different chunks and have both ended,
\* each with its own text
C23_Witness ==
    \E r, q \in Reqs :
        /\ r # q
        /\ st[r].kind = "translate" /\ st[q].kind = "translate"
        /\ st[r].ended = "eof" /\ st[q].ended = "eof"
        /\ st[r].chunks # <<>> /\ st[q].chunks # <<>>
        /\ st[r].chunks # st[q].chunks
        /\ st[r].out # st[q].out

\* ------------------------------------------------------------------------ C24
Dropped(r) == st[r].pc = "dropped"

\* C24: once the caller of a streaming response has disconnected, at whatever point
\* of translate_chat_stream or passthrough_responses_stream, the proxy reads no
\* further chunk of that upstream stream, emits no further event and issues no new
\* upstream request for that request.
C24_Cancellation ==
    [][\A r \in Reqs :
          Dropped(r) => /\ st'[r] = st[r]
                        /\ req'[r] = req[r]]_vars

\* a translated stream dropped after its first chunk, with its single POST, while
\* the stream of the other request has run to its end
C24_Witness ==
    \E r, q \in Reqs :
        /\ Dropped(r) /\ st[r].kind = "translate" /\ st[r].nread >= 1
        /\ req[r].posts = 1
        /\ q # r /\ st[q].kind = "translate" /\ st[q].ended = "eof"

\* ------------------------------------------------------------------------ C25
\* the chunks of a sequence, each as the event that forwards it unchanged
Forwarded(chunks) == [i \in 1..Len(chunks) |-> RawChunk(chunks[i])]

\* C25: passthrough_responses_stream forwards every chunk it has read, unchanged,
\* once and in the order of arrival; on the first read error it emits a single
\* response.failed with code upstream_stream_error, without a response.created,
\* and ends: nothing is read or forwarded after it.
C25_Passthrough ==
    /\ [](\A r \in Reqs :
            st[r].kind = "passthrough" =>
                LET s == st[r]
                IN  IF s.ended = "error"
                    THEN /\ s.out = Append(Forwarded(s.chunks),
                                           FailedEvent(0, "upstream_stream_error",
                                                       ReadErrorMessage))
                         /\ s.pc = "done"
                    ELSE s.out = Forwarded(s.chunks))
    /\ [][\A r \in Reqs :
            (st[r].kind = "passthrough" /\ st[r].ended = "error") => st'[r] = st[r]]_vars

\* two chunks forwarded in their order and then a read error
C25_Witness ==
    /\ st[StreamReq].kind = "passthrough"
    /\ st[StreamReq].ended = "error"
    /\ st[StreamReq].chunks = <<"response.created", "response.output_text.delta">>
    /\ Len(st[StreamReq].out) = 3

\* ------------------------------------------------------------------------ C26
\* the tool-call fragments of a decoded chunk, over its choices, in their order
RECURSIVE FragmentsOfChoices(_)
FragmentsOfChoices(choices) ==
    IF choices = <<>> THEN <<>>
    ELSE LET delta == Head(choices).delta
         IN  (IF IsSome(delta) /\ IsSome(Unwrap(delta).tool_calls)
              THEN Unwrap(Unwrap(delta).tool_calls) ELSE <<>>)
             \o FragmentsOfChoices(Tail(choices))

RECURSIVE FragmentsOfPayloads(_)
FragmentsOfPayloads(payloads) ==
    IF payloads = <<>> THEN <<>>
    ELSE (IF IsProcessed(Head(payloads))
          THEN FragmentsOfChoices(Unwrap(DecodeChatChunk(Head(payloads))).choices)
          ELSE <<>>)
         \o FragmentsOfPayloads(Tail(payloads))

\* the tool-call fragments a stream has processed, in arrival order
Fragments(s) == FragmentsOfPayloads(FeedLoop(s.input, <<>>, <<>>).events)

\* the last value a sequence of Options provides, None when none does
RECURSIVE LastProvided(_)
LastProvided(options) ==
    IF options = <<>> THEN None
    ELSE IF IsSome(options[Len(options)]) THEN options[Len(options)]
    ELSE LastProvided(SubSeq(options, 1, Len(options) - 1))

FragmentName(tc) == IF IsSome(tc.function) THEN Unwrap(tc.function).name ELSE None
FragmentArguments(tc) ==
    IF IsSome(tc.function) /\ IsSome(Unwrap(tc.function).arguments)
    THEN Unwrap(Unwrap(tc.function).arguments) ELSE <<>>

\* the position of index i among the function_call items of a stream
RankOf(i, keys) == Cardinality({ k \in keys : k <= i })

\* C26: in a stream that has ended without a read error, the function_call item
\* emitted for an index i that fragments carried explicitly has the last id those
\* fragments provided (a synthesized call id for i if none), the last name they
\* provided (unknown_function if none) and the concatenation of their arguments in
\* arrival order.
C26_Claim ==
    \A r \in Reqs :
        (Translating(r) /\ st[r].ended = "eof") =>
            LET s == st[r]
                frags == Fragments(s)
                items == FunctionCallDones(s.out)
                keys == DOMAIN s.acc.tool_calls
            IN  \A i \in { Unwrap(frags[k].index) : k \in { j \in 1..Len(frags) : IsSome(frags[j].index) } } :
                    LET mine == SelectSeq(frags, LAMBDA tc : tc.index = Some(i))
                        id == LastProvided([k \in 1..Len(mine) |-> mine[k].id])
                        name == LastProvided([k \in 1..Len(mine) |-> FragmentName(mine[k])])
                        arguments == Concat([k \in 1..Len(mine) |-> FragmentArguments(mine[k])])
                    IN  /\ i \in keys
                        /\ Len(items) = Cardinality(keys)
                        /\ LET item == items[RankOf(i, keys)]
                           IN  /\ item.name = UnwrapOr(name, "unknown_function")
                               /\ item.arguments = arguments
                               /\ IF IsSome(id)
                                  THEN item.call_id.id = Unwrap(id) /\ item.call_id.uuid = 0
                                  ELSE /\ item.call_id.id = ""
                                       /\ item.call_id.uuid > 0
                                       /\ item.call_id.index = i

\* ------------------------------------------------------------------------ C27
\* every fragment without an index, of the fragments taken one by one into the
\* map, is stored under an index that the map does not hold yet
RECURSIVE NextSlotHolds(_, _)
NextSlotHolds(tool_calls, frags) ==
    IF frags = <<>> THEN TRUE
    ELSE LET tc == Head(frags)
         IN  /\ ~IsSome(tc.index) =>
                    /\ ToolCallIndex(tool_calls, tc) = Cardinality(DOMAIN tool_calls)
                    /\ ToolCallIndex(tool_calls, tc) \notin DOMAIN tool_calls
             /\ NextSlotHolds(AccumulateToolCall(tool_calls, tc), Tail(frags))

\* C27: a fragment without `index` is stored under the index equal to the current
\* number of entries, and after every preceding sequence of fragments, with or
\* without explicit indices, contiguous or sparse, that index is a slot no earlier
\* fragment used, so that no existing entry is modified.
C27_Claim ==
    \A r \in Reqs :
        Translating(r) =>
            NextSlotHolds(StreamAccumulatorDefault.tool_calls, Fragments(st[r]))

\* ------------------------------------------------------------------------ C28
\* a Responses request has been mapped to the Chat payload of the upstream
MappedToChat == pay.pc = "built" /\ pay.api = "responses" /\ cfg.upstream_wire = "chat"

TypeOf(item) == UnwrapOr(AsStr(item.type), <<>>)
OutputTypes == {FUNCTION_CALL_OUTPUT, CUSTOM_TOOL_CALL_OUTPUT, MCP_TOOL_CALL_OUTPUT}

\* the flattened text of a message item
FlattenedText(item) ==
    IF IsSome(AsArray(item.content)) THEN FlattenContentItems(Unwrap(AsArray(item.content)))
    ELSE <<>>

\* what one input item contributes to `messages`, by its type
ImageLaw(item, image) ==
    /\ Len(image) <= 1
    /\ TypeOf(item) = MESSAGE =>
           /\ image = <<>> <=> IsBlank(FlattenedText(item))
           /\ image # <<>> =>
                  image[1] = ChatRequestMessage(UnwrapOr(AsStr(item.role), USER),
                                                FlattenedText(item))
    /\ TypeOf(item) = FUNCTION_CALL =>
           /\ image = <<>> <=> UnwrapOr(AsStr(item.name), <<>>) = <<>>
           /\ image # <<>> =>
                  /\ image[1].role = ASSISTANT
                  /\ image[1].tool_call_id = None
                  /\ Len(image[1].tool_calls) = 1
                  /\ image[1].tool_calls[1].function.name = Unwrap(AsStr(item.name))
    /\ TypeOf(item) \in OutputTypes =>
           /\ Len(image) = 1
           /\ image[1].role = TOOL
           /\ image[1].tool_calls = <<>>
           /\ image[1].tool_call_id = Some(UnwrapOr(AsStr(item.call_id), <<>>))
    /\ TypeOf(item) \notin {MESSAGE, FUNCTION_CALL} \cup OutputTypes => image = <<>>

\* C28: in the Responses-to-Chat mapping `messages` is one leading system message
\* iff `instructions` is a non-blank string, followed by the images of the input
\* items in their order; an item yields at most one message: a message item its
\* {role, content} unless the flattened text is blank, a function_call item one
\* assistant message with one tool call unless its name is empty, each output
\* item one tool message with the call_id of the item (the empty string when the
\* item has none), and an item of another type nothing.
C28_Messages ==
    MappedToChat =>
        LET request == pay.body
            messages == pay.payload.value.messages
            instructions == AsStr(request.instructions)
            system == IF IsSome(instructions) /\ ~IsBlank(Unwrap(instructions))
                      THEN <<ChatRequestMessage(SYSTEM, Unwrap(instructions))>> ELSE <<>>
            images == [i \in 1..Len(request.input) |-> MapInputItem(request.input[i])]
        IN  /\ messages = system \o Concat(images)
            /\ \A i \in 1..Len(request.input) : ImageLaw(request.input[i], images[i])

\* a system message and a tool message, with an unnamed function_call between the
\* instructions and the output item that yields nothing
C28_Witness ==
    /\ MappedToChat
    /\ Len(pay.body.input) = 2
    /\ TypeOf(pay.body.input[1]) = FUNCTION_CALL
    /\ TypeOf(pay.body.input[2]) = FUNCTION_CALL_OUTPUT
    /\ Len(pay.payload.value.messages) = 2
    /\ pay.payload.value.messages[1].role = SYSTEM
    /\ pay.payload.value.messages[2].role = TOOL

\* ------------------------------------------------------------------------ C30
\* C30: in the Chat payload built from a Responses request, `stream_options` is
\* present, and is {include_usage:true}, if and only if the `stream` flag of the
\* payload is true; in unary mode the member is absent.
C30_StreamOptions ==
    MappedToChat =>
        LET payload == pay.payload.value
        IN  /\ payload.stream \in {"true", "false"}
            /\ payload.stream = StreamMember(pay.wants_stream)
            /\ payload.stream = "true" <=> IsSome(payload.stream_options)
            /\ IsSome(payload.stream_options) => payload.stream_options = Some(IncludeUsage)
            /\ ~pay.wants_stream => payload.stream_options = None

\* a unary request whose own stream_options is not carried into the payload
C30_Witness ==
    /\ MappedToChat
    /\ pay.body.stream = "false"
    /\ pay.body.stream_options = Some(IncludeUsage)
    /\ pay.payload.value.stream = "false"
    /\ pay.payload.value.stream_options = None

\* ------------------------------------------------------------------------ C29
\* an object {type:"function", name:X} with a string X and no `function` member
IsFlatFunctionChoice(v) ==
    /\ v.kind = "object"
    /\ ~IsSome(v.function)
    /\ v.type = Some(JsonString(FUNCTION))
    /\ IsSome(v.name) /\ Unwrap(v.name).kind = "string"

\* what the claim gives for normalize_tool_choice(v)
ToolChoiceLaw(v, n) ==
    /\ v.kind = "string" => n = v
    /\ (v.kind = "object" /\ IsSome(v.function)) => n = v
    /\ IsFlatFunctionChoice(v) =>
           n = ChoiceObject(Some(JsonString(FUNCTION)), None,
                            Some(FunctionChoice("object", v.name)))
    /\ ~(v.kind = "string" \/ (v.kind = "object" /\ IsSome(v.function))
           \/ IsFlatFunctionChoice(v)) => n = ChoiceString("auto")
    /\ n.kind = "string" \/ (n.kind = "object" /\ IsSome(n.function))

\* C29: normalize_tool_choice returns a string unchanged, an object with a
\* `function` member unchanged, {type:"function", function:{name:X}} for
\* {type:"function", name:X}, and "auto" for every other input; its result is a
\* string or an object with a `function` member, and normalizing twice gives what
\* normalizing once gives. The Chat payload of a Responses request that keeps
\* tools carries the normalized value.
C29_ToolChoice ==
    /\ (pay.pc # "idle" /\ IsSome(pay.body.tool_choice)) =>
           LET v == Unwrap(pay.body.tool_choice)
               n == NormalizeToolChoice(v)
           IN  /\ ToolChoiceLaw(v, n)
               /\ NormalizeToolChoice(n) = n
    /\ (MappedToChat /\ IsSome(pay.payload.value.tool_choice)) =>
           pay.payload.value.tool_choice =
               Some(NormalizeToolChoice(UnwrapOr(pay.request.tool_choice, ChoiceString("auto"))))

\* {type:"function", name:"f"} rewrapped in the Chat payload of a request with tools
C29_Witness ==
    /\ MappedToChat
    /\ pay.body.tool_choice = Some(FnFlat)
    /\ pay.payload.value.tool_choice = Some(FnWrapped)

\* ------------------------------------------------------------------------ C31
\* a Chat request has been mapped to the Responses payload of the upstream
MappedToResponses == pay.pc = "built" /\ pay.api = "chat" /\ cfg.upstream_wire = "responses"

RoleOf(message) == UnwrapOr(AsStr(message.role), USER)

\* every element of a content is {type:"input_text", text} with a string text
InputTextParts(parts) ==
    \A k \in 1..Len(parts) :
        /\ parts[k].type = Some(JsonString(INPUT_TEXT))
        /\ IsSome(parts[k].text) /\ Unwrap(parts[k].text).kind = "string"

\* what one message contributes to `input`, by its role
MessageImageLaw(message, image) ==
    /\ Len(image) <= 1
    /\ RoleOf(message) = TOOL =>
           /\ Len(image) = 1
           /\ image[1] = [InputItem(Some(JsonString(FUNCTION_CALL_OUTPUT))) EXCEPT
                             !.call_id = Some(JsonString(UnwrapOr(AsStr(message.tool_call_id), <<>>))),
                             !.output = Some(JsonString(
                                 IF IsSome(message.content)
                                 THEN FunctionOutputToText(Unwrap(message.content))
                                 ELSE <<>>))]
    /\ RoleOf(message) # TOOL =>
           LET parts == ChatMessageContentToInputItems(message.content)
           IN  /\ image = <<>> <=> parts = <<>>
               /\ InputTextParts(parts)
               /\ image # <<>> =>
                      image[1] = [InputItem(Some(JsonString(MESSAGE))) EXCEPT
                                     !.role = Some(JsonString(RoleOf(message))),
                                     !.content = Some(JsonArray(parts))]
    /\ (message.content = Some(JsonString(<<"h", "i">>)) /\ RoleOf(message) = USER) =>
           image = <<[InputItem(Some(JsonString(MESSAGE))) EXCEPT
                         !.role = Some(JsonString(USER)),
                         !.content = Some(JsonArray(<<InputTextPart(<<"h", "i">>)>>))]>>

\* C31: in the Chat-to-Responses mapping `input` is the images of the messages in
\* their order, each message yielding at most one item: a message with role tool
\* one function_call_output item with its tool_call_id and its flattened content,
\* a message with another role one message item with its role and its input_text
\* parts if the content gives at least one part, and nothing otherwise.
C31_Input ==
    MappedToResponses =>
        LET messages == pay.body.messages
            images == [i \in 1..Len(messages) |-> MapChatMessage(messages[i])]
        IN  /\ pay.payload.value.input = Concat(images)
            /\ \A i \in 1..Len(messages) : MessageImageLaw(messages[i], images[i])

\* a message without parts dropped before the output item of a tool message
C31_Witness ==
    /\ MappedToResponses
    /\ Len(pay.body.messages) = 2
    /\ RoleOf(pay.body.messages[1]) = ASSISTANT /\ ~IsSome(pay.body.messages[1].content)
    /\ RoleOf(pay.body.messages[2]) = TOOL
    /\ Len(pay.payload.value.input) = 1
    /\ pay.payload.value.input[1].type = Some(JsonString(FUNCTION_CALL_OUTPUT))



\* ------------------------------------------------------------------- C32
Transcoded == una.pc = "done"

\* the text the content of a Chat message flattens to
UnaryText(message) ==
    IF IsSome(message.content) THEN FunctionOutputToText(Unwrap(message.content)) ELSE <<>>

\* C32: chat_json_to_responses_json always returns the envelope (the given
\* response id, object "response", status "completed", output, usage); the
\* output holds at most one message item, present exactly when the content of
\* the first choice's message flattens to a text that is not blank, followed by
\* exactly one function_call item for each entry of that message's tool_calls,
\* in order; later choices contribute nothing, and a document without choices
\* gives an empty output.
C32_Unary ==
    Transcoded =>
        LET out == Unwrap(una.json).output
            choices == una.chat.choices
        IN  /\ Unwrap(una.json).schema = "responses"
            /\ Unwrap(una.json).id = una.response_id
            /\ Unwrap(una.json).status = "completed"
            /\ IsSome(Unwrap(una.json).usage) <=> IsSome(una.chat.usage)
            /\ Cardinality({ i \in 1..Len(out) : out[i].type = "message" }) <= 1
            /\ choices = <<>> => out = <<>>
            /\ choices # <<>> =>
                   LET first == choices[1]
                       text == UnaryText(first)
                       k == IF IsBlank(text) THEN 0 ELSE 1
                   IN  /\ Len(out) = k + Len(first.tool_calls)
                       /\ k = 1 => out[1].type = "message" /\ out[1].text = text
                       /\ \A i \in 1..Len(first.tool_calls) :
                              LET tc == first.tool_calls[i]
                                  item == out[k + i]
                              IN  /\ item.type = "function_call"
                                  /\ IsSome(tc.name) => item.name = Unwrap(tc.name)
                                  /\ IsSome(tc.id) => item.call_id.id = Unwrap(tc.id)

C32_Witness ==
    /\ Transcoded
    /\ Len(una.chat.choices) = 2
    /\ Len(una.chat.choices[1].tool_calls) = 2
    /\ Len(Unwrap(una.json).output) = 3
    /\ Unwrap(una.json).output[1].type = "message"
    /\ Unwrap(una.json).output[3].type = "function_call"

\* ------------------------------------------------------------------- C33
\* the `usage` members of the payloads a stream has decoded, in arrival order
RECURSIVE UsagesOfPayloads(_)
UsagesOfPayloads(payloads) ==
    IF payloads = <<>> THEN <<>>
    ELSE (IF IsProcessed(Head(payloads))
          THEN <<Unwrap(DecodeChatChunk(Head(payloads))).usage>> ELSE <<>>)
         \o UsagesOfPayloads(Tail(payloads))

Usages(s) == UsagesOfPayloads(FeedLoop(s.input, <<>>, <<>>).events)

\* C33: the usage carried by the response.completed of translate_chat_stream is
\* the mapping (prompt to input, completion to output, total to total) of the
\* usage of the last decoded payload that carried one, and null when no payload
\* carried one; a payload without usage never resets it.
C33_Usage ==
    \A r \in Reqs :
        (Translating(r) /\ st[r].ended = "eof") =>
            LET out == st[r].out
                completed == out[Len(out)]
                last == LastProvided(Usages(st[r]))
            IN  /\ completed.type = "response.completed"
                /\ completed.usage = IF IsSome(last) THEN Some(ResponsesUsage(Unwrap(last)))
                                     ELSE None

C33_Witness ==
    \E r \in Reqs :
        /\ Translating(r) /\ st[r].ended = "eof"
        /\ LET usages == Usages(st[r])
           IN  /\ Len(usages) = 4
               /\ usages[1] = Some(ChatUsage(4, 5, 9))
               /\ usages[3] = Some(ChatUsage(1, 2, 3))
               /\ usages[4] = None
        /\ st[r].out[Len(st[r].out)].usage = Some(ResponsesUsage(ChatUsage(1, 2, 3)))

\* ------------------------------------------------------------------- C34
\* the line a feed of one line hands the parser, without its newline
FedLine == SubSeq(par.text, par.pos + 1, par'.pos - 1)
\* the events that feed returns
Emitted == SubSeq(par'.events, Len(par.events) + 1, Len(par'.events))

\* a line without one trailing carriage return
WithoutCR(line) ==
    IF line # <<>> /\ line[Len(line)] = CR THEN SubSeq(line, 1, Len(line) - 1) ELSE line
\* a text without one leading space
WithoutSpace(text) ==
    IF text # <<>> /\ text[1] = SP THEN SubSeq(text, 2, Len(text)) ELSE text

LineLaw ==
    LET line == WithoutCR(FedLine)
        pending == par.parser.current_data_lines
        after == par'.parser.current_data_lines
    IN  IF line = <<>>
        THEN /\ after = <<>>
             /\ Emitted = IF pending # <<>> THEN <<JoinNL(pending)>> ELSE <<>>
        ELSE IF HasPrefix(line, DATA_PREFIX)
        THEN /\ after = Append(pending, WithoutSpace(SubSeq(line, 6, Len(line))))
             /\ Emitted = <<>>
        ELSE /\ after = pending
             /\ Emitted = <<>>

\* C34: feed emits one payload for each blank line that follows at least one
\* pending data line, the pending data lines joined by a newline in arrival
\* order; a data line contributes the text after `data:` without exactly one
\* leading space and without one trailing carriage return; a blank line with
\* nothing pending emits nothing; every other line changes neither the pending
\* list nor the output.
C34_Feed == [][ParFeedLine => LineLaw]_vars

\* a data line with two spaces and a carriage return, a data line without
\* space, then a blank line: one payload of two lines was returned
C34_Witness ==
    /\ par.pos = Len(par.text)
    /\ par.text = <<"d", "a", "t", "a", ":", SP, SP, "c", CR, NL,
                    "d", "a", "t", "a", ":", "b", NL, CR, NL>>
    /\ par.events = << <<SP, "c", NL, "b">> >>
    /\ par.parser.current_data_lines = <<>>

\* ------------------------------------------------------------------- C35
Logged == pay.pc # "idle" /\ cfg.verbose_logging

\* the words of the header values a log line interpolates
WordsOf(line) ==
    UNION { { line.headers[i].value[j] : j \in 1..Len(line.headers[i].value) } :
              i \in 1..Len(line.headers) }

\* the log of the same request under another key
LogUnder(key) ==
    VerboseLog(pay.body, cfg.upstream_wire, pay.headers, key,
               PreparePayload(pay.api, pay.body, cfg.drop_tool_types, cfg.upstream_wire))

C36_Shutdown ==
    /\ [](\A i \in 1..Len(shutdownLog) :
             shutdownLog[i] = IF cfg.http_shutdown THEN 200 ELSE 404)
    /\ [](~cfg.http_shutdown => exitTimer = "none")
    /\ ((cfg.http_shutdown /\ shutdownLog # <<>>) ~> (exitTimer = "exited"))
    /\ [][exitTimer' = "exited" => (shutdownLog # <<>> /\ UNCHANGED shutdownLog)]_vars

C36_Witness ==
    /\ cfg.http_shutdown
    /\ shutdownLog = <<200>>
    /\ exitTimer = "exited"

\* ------------------------------------------------------------------- C37
Resolved == conf.pc = "resolved"

\* the value of the command line, else the value of the file, else the default
Precedence(cli, file, default) ==
    IF cli # None THEN cli ELSE IF file # None THEN file ELSE default

\* C37: resolve_config gives every scalar option (host, port, upstream_url,
\* upstream_wire, api_key_env, server_info) the value of the command line when
\* one is given, else the value of the file when it has one, else the default,
\* the default upstream_url being the one of the resolved upstream_wire; each
\* boolean is true iff the flag of the command line or the value of the file is
\* true; drop_tool_types is the list of the file followed by the list of the
\* command line, without the blank entries.
C37_Config ==
    Resolved =>
        LET a == conf.args
            f == IF conf.file_config = None THEN FileConfigDefault
                 ELSE conf.file_config[1]
            c == Unwrap(conf.config)
            listed == (IF f.drop_tool_types = None THEN <<>> ELSE f.drop_tool_types[1])
                      \o a.drop_tool_types
            kept == { i \in 1..Len(listed) : ~IsBlank(listed[i]) }
        IN  /\ <<c.host>> = Precedence(a.host, f.host, <<"127.0.0.1">>)
            /\ c.port = Precedence(a.port, f.port, None)
            /\ <<c.upstream_wire>> = Precedence(a.upstream_wire, f.upstream_wire, <<"chat">>)
            /\ <<c.upstream_url>> =
                   Precedence(a.upstream_url, f.upstream_url,
                              <<IF c.upstream_wire = "chat"
                                THEN "https://api.openai.com/v1/chat/completions"
                                ELSE "https://api.openai.com/v1/responses">>)
            /\ <<c.api_key_env>> = Precedence(a.api_key_env, f.api_key_env, <<"OPENAI_API_KEY">>)
            /\ c.server_info = Precedence(a.server_info, f.server_info, None)
            /\ c.http_shutdown <=> (a.http_shutdown \/ f.http_shutdown = <<TRUE>>)
            /\ c.verbose_logging <=> (a.verbose_logging \/ f.verbose_logging = <<TRUE>>)
            /\ Len(c.drop_tool_types) = Cardinality(kept)
            /\ \A i \in 1..Len(c.drop_tool_types) :
                   \E j \in kept : /\ c.drop_tool_types[i] = listed[j]
                                   /\ Cardinality({ k \in kept : k < j }) = i - 1

\* the command line and the file both give the upstream wire and a list with a
\* blank entry, and only the file gives the host
C37_Witness ==
    /\ Resolved
    /\ conf.file_config # None
    /\ conf.args.upstream_wire = <<"responses">>
    /\ conf.file_config[1].upstream_wire = <<"chat">>
    /\ conf.args.host = None /\ conf.file_config[1].host # None
    /\ conf.args.upstream_url = None /\ conf.file_config[1].upstream_url = None
    /\ Unwrap(conf.config).upstream_url = "https://api.openai.com/v1/responses"
    /\ Unwrap(conf.config).host = "file-host"
    /\ conf.args.drop_tool_types = << <<SP>>, <<"a">> >>
    /\ conf.file_config[1].drop_tool_types = << << <<"b">>, <<SP>> >> >>
    /\ Unwrap(conf.config).drop_tool_types = << <<"b">>, <<"a">> >>
    /\ ~conf.args.http_shutdown /\ Unwrap(conf.config).http_shutdown

\* ------------------------------------------------------------------- C38
\* C38 as claimed: whenever an upstream POST was made for a request, the framing
\* of its response agrees with the `stream` flag sent upstream: the response is
\* SSE if and only if the `stream` member of the upstream payload is true, also
\* for the error responses produced after the POST.
C38_Claim ==
    \A r \in Reqs :
        (req[r].posts > 0 /\ req[r].framing # "none") =>
            (req[r].framing = "sse" <=> req[r].payload_stream = "true")

\* ------------------------------------------------------------------- C39
\* the streams the proxy builds itself: translate_chat_stream, sse_error_response
Generated(r) == st[r].kind \in {"translate", "sse_error"}

\* C39: within every SSE stream the proxy generates, the response id of the
\* terminal event is the id of that stream's response.created, and the ids of
\* different requests are distinct.
C39_ResponseIds ==
    /\ \A r \in Reqs :
           Generated(r) =>
               LET out == st[r].out
               IN  /\ out # <<>> /\ IsCreated(out[1])
                   /\ \A i \in 1..Len(out) : IsTerminal(out[i]) => out[i].rid = out[1].rid
    /\ \A r1, r2 \in Reqs :
           (r1 # r2 /\ Generated(r1) /\ Generated(r2)) =>
               st[r1].out[1].rid # st[r2].out[1].rid

\* a translated stream that completed beside an error stream, each with its id
C39_Witness ==
    \E r1, r2 \in Reqs :
        /\ st[r1].kind = "translate" /\ st[r1].ended = "eof"
        /\ st[r1].out[Len(st[r1].out)].type = "response.completed"
        /\ st[r2].kind = "sse_error"
        /\ st[r2].out[Len(st[r2].out)].type = "response.failed"
        /\ st[r1].out[1].rid # st[r2].out[1].rid

\* ------------------------------------------------------------------- C40
\* a message item with role user, assistant or system and exactly one input_text
\* part that is not blank, or a function_call_output with string call_id and output
IsPlainItem(item) ==
    \/ /\ item = [InputItem(Some(JsonString(MESSAGE))) EXCEPT
                      !.role = item.role, !.content = item.content]
       /\ AsStr(item.role) \in {Some(USER), Some(ASSISTANT), Some(SYSTEM)}
       /\ IsSome(AsArray(item.content))
       /\ LET parts == Unwrap(AsArray(item.content))
          IN  /\ Len(parts) = 1
              /\ parts[1].type = Some(JsonString(INPUT_TEXT))
              /\ IsSome(AsStr(parts[1].text))
              /\ ~IsBlank(Unwrap(AsStr(parts[1].text)))
    \/ /\ item = [InputItem(Some(JsonString(FUNCTION_CALL_OUTPUT))) EXCEPT
                      !.call_id = item.call_id, !.output = item.output]
       /\ IsSome(AsStr(item.call_id))
       /\ IsSome(AsStr(item.output))

PlainRequest ==
    /\ MappedToChat
    /\ pay.body.instructions = None
    /\ \A i \in 1..Len(pay.body.input) : IsPlainItem(pay.body.input[i])

\* the `input` map_chat_to_responses_request gives for the messages of the
\* Chat payload
RoundTripInput ==
    LET messages == pay.payload.value.messages
    IN  MapChatMessages([i \in 1..Len(messages) |-> ChatMessageJsonOf(messages[i])])

\* C40: for a Responses request without instructions whose input holds only
\* message items with role user, assistant or system and exactly one input_text
\* part that is not blank, and function_call_output items with a string call_id
\* and a string output, mapping to Chat and back to Responses gives the
\* original input.
C40_RoundTrip == PlainRequest => RoundTripInput = pay.body.input

C40_Witness ==
    /\ PlainRequest
    /\ Len(pay.body.input) = 2
    /\ AsStr(pay.body.input[1].role) = Some(ASSISTANT)
    /\ AsStr(pay.body.input[2].type) = Some(FUNCTION_CALL_OUTPUT)
    /\ Len(pay.payload.value.messages) = 2
    /\ pay.payload.value.messages[2].role = TOOL
    /\ RoundTripInput = pay.body.input
====
